---- MODULE Spec2Model ----
(***************************************************************************)
(* Model of the ObsidianScripts batch tools: the per-file rewrite          *)
(* functions (tag conversion, wikilink simplification, navigation-row      *)
(* repair, #done-tag cleaning), the metadata (YAML) generation tool, and   *)
(* the batch loops that drive them over the notes of a vault.              *)
(*                                                                         *)
(* A text is a sequence of characters; a character is a one-element        *)
(* string, except the two arrows of the navigation row, which are the      *)
(* symbols LARROW and RARROW.                                              *)
(***************************************************************************)
EXTENDS Integers, Sequences, FiniteSets, TLC

(***************************************************************************)
(* Characters and character classes of Python's re module.                 *)
(***************************************************************************)
LARROW == "<-"
RARROW == "->"
NL == "\n"

Letters ==
    {"a","b","c","d","e","f","g","h","i","j","k","l","m","n","o","p","q","r",
     "s","t","u","v","w","x","y","z",
     "A","B","C","D","E","F","G","H","I","J","K","L","M","N","O","P","Q","R",
     "S","T","U","V","W","X","Y","Z"}

Digits == {"0","1","2","3","4","5","6","7","8","9"}

\* a letter outside ASCII (str patterns match Unicode word characters)
EACUTE == "e'"

\* [a-zA-Z0-9_]
AsciiWordChars == Letters \cup Digits \cup {"_"}

\* \w
WordChars == AsciiWordChars \cup {EACUTE}

\* \s
SpaceChars == {" ", NL, "\t"}

IsWord(c) == c \in WordChars

IsSpace(c) == c \in SpaceChars

(***************************************************************************)
(* String primitives (str.startswith, str.find, str.replace, str.strip).   *)
(* Positions are 1-based; 0 stands for "not found".                        *)
(***************************************************************************)
SetMin(S) == CHOOSE k \in S : \A j \in S : k <= j

SetMax(S) == CHOOSE k \in S : \A j \in S : j <= k

\* the literal lit occurs in t at position i
StartsAt(t, i, lit) ==
    /\ i >= 1
    /\ i + Len(lit) - 1 <= Len(t)
    /\ \A k \in 1..Len(lit) : t[i + k - 1] = lit[k]

\* the text from position i to the end
From(t, i) == SubSeq(t, i, Len(t))

\* str.find(lit, from): the first position >= from where lit occurs, else 0
Find(t, lit, from) ==
    LET ps == {i \in from..(Len(t) - Len(lit) + 1) : StartsAt(t, i, lit)}
    IN  IF ps = {} THEN 0 ELSE SetMin(ps)

\* lit in t
Contains(t, lit) == Find(t, lit, 1) # 0

\* str.rindex(lit): the last position where lit occurs, else 0
RIndex(t, lit) ==
    LET ps == {i \in 1..Len(t) : StartsAt(t, i, lit)}
    IN  IF ps = {} THEN 0 ELSE SetMax(ps)

\* str.replace(old, new) for a non-empty old: leftmost, non-overlapping
RECURSIVE Replace(_, _, _)
Replace(t, old, new) ==
    LET p == Find(t, old, 1)
    IN  IF p = 0 THEN t
        ELSE SubSeq(t, 1, p - 1) \o new \o Replace(From(t, p + Len(old)), old, new)

\* the first position >= i that holds no whitespace (Len(t)+1 at the end): \s*
SkipSpace(t, i) ==
    SetMin({j \in i..(Len(t) + 1) : j > Len(t) \/ ~IsSpace(t[j])})

\* str.strip()
RStrip(t) ==
    SubSeq(t, 1, SetMax({j \in 0..Len(t) : j = 0 \/ ~IsSpace(t[j])}))

Strip(t) == RStrip(From(t, SkipSpace(t, 1)))

\* the end (exclusive) of the longest run of characters in class cs from i
RunEnd(t, i, cs) ==
    SetMin({j \in i..(Len(t) + 1) : j > Len(t) \/ t[j] \notin cs})

\* the end (exclusive) of the longest run of characters not in class cs from i
RunEndNot(t, i, cs) ==
    SetMin({j \in i..(Len(t) + 1) : j > Len(t) \/ t[j] \in cs})

\* concatenation of a sequence of texts
RECURSIVE Flatten(_)
Flatten(ss) == IF ss = <<>> THEN <<>> ELSE Head(ss) \o Flatten(Tail(ss))

(***************************************************************************)
(* clean_done_tags_vault.py: the #done-tag cleaner.                        *)
(***************************************************************************)
DoneLit == <<"#", "d", "o", "n", "e">>

\* DONE_WITH_PARENS_PATTERN  #done\s*\([^)]*\)  at position i:
\* the end (exclusive) of the match, 0 when there is none
DoneParensEnd(t, i) ==
    IF ~StartsAt(t, i, DoneLit) THEN 0
    ELSE LET j == SkipSpace(t, i + Len(DoneLit))
         IN  IF j > Len(t) \/ t[j] # "(" THEN 0
             ELSE LET k == RunEndNot(t, j + 1, {")"})
                  IN  IF k > Len(t) THEN 0 ELSE k + 1

\* DONE_STANDALONE_PATTERN  #done\b(?!\s*\()  at position i
DoneStandaloneEnd(t, i) ==
    LET e == i + Len(DoneLit)
        j == SkipSpace(t, e)
    IN  IF /\ StartsAt(t, i, DoneLit)
           /\ (e > Len(t) \/ ~IsWord(t[e]))
           /\ ~(j <= Len(t) /\ t[j] = "(")
        THEN e ELSE 0

\* the leftmost position at or after i in the set of match starts, else 0
NextIn(starts, i) ==
    IF {k \in starts : k >= i} = {} THEN 0 ELSE SetMin({k \in starts : k >= i})

\* re.findall(DONE_WITH_PARENS_PATTERN, content): the matched texts, in order
RECURSIVE FindAllDoneParens(_, _)
FindAllDoneParens(t, i) ==
    LET k == NextIn({j \in 1..Len(t) : DoneParensEnd(t, j) # 0}, i)
    IN  IF k = 0 THEN <<>>
        ELSE <<SubSeq(t, k, DoneParensEnd(t, k) - 1)>>
                 \o FindAllDoneParens(t, DoneParensEnd(t, k))

\* re.findall(DONE_STANDALONE_PATTERN, content)
RECURSIVE FindAllDoneStandalone(_, _)
FindAllDoneStandalone(t, i) ==
    LET k == NextIn({j \in 1..Len(t) : DoneStandaloneEnd(t, j) # 0}, i)
    IN  IF k = 0 THEN <<>>
        ELSE <<SubSeq(t, k, DoneStandaloneEnd(t, k) - 1)>>
                 \o FindAllDoneStandalone(t, DoneStandaloneEnd(t, k))

\* \b#done\b at position i: "#" is no word character, so the leading \b
\* asks for a word character before it
DoneBoundedAt(t, i) ==
    /\ StartsAt(t, i, DoneLit)
    /\ i > 1 /\ IsWord(t[i - 1])
    /\ (i + Len(DoneLit) > Len(t) \/ ~IsWord(t[i + Len(DoneLit)]))

\* re.sub(r"\b" + re.escape("#done") + r"\b", "", t)
RECURSIVE SubDoneBounded(_, _)
SubDoneBounded(t, i) ==
    LET k == NextIn({j \in 1..Len(t) : DoneBoundedAt(t, j)}, i)
    IN  IF k = 0 THEN From(t, i)
        ELSE SubSeq(t, i, k - 1) \o SubDoneBounded(t, k + Len(DoneLit))

\* for match in matches_with_parens: content = content.replace(match, "")
RECURSIVE RemoveAll(_, _)
RemoveAll(t, ms) ==
    IF ms = <<>> THEN t ELSE RemoveAll(Replace(t, Head(ms), <<>>), Tail(ms))

\* for match in matches_standalone: content = re.sub(..., "", content)
RECURSIVE SubDoneTimes(_, _)
SubDoneTimes(t, n) ==
    IF n = 0 THEN t ELSE SubDoneTimes(SubDoneBounded(t, 1), n - 1)

\* the computation of clean_done_tags on the content read:
\* the content it would write and the count it returns with it
CleanDoneText(content) ==
    LET withParens == FindAllDoneParens(content, 1)
        standalone == FindAllDoneStandalone(content, 1)
        tag_count == Len(withParens) + Len(standalone)
        modified == SubDoneTimes(RemoveAll(content, withParens), Len(standalone))
    IN  IF tag_count = 0 THEN [text |-> content, count |-> 0]
        ELSE [text |-> modified, count |-> tag_count]

(***************************************************************************)
(* simplify_wikilinks.py: the wikilink simplifier.                         *)
(***************************************************************************)
Open2 == <<"[", "[">>
Close2 == <<"]", "]">>
Pipe == <<"|">>

NoWikiMatch == [end |-> 0, name |-> <<>>]

\* the part of WIKILINK_PATTERN after the note name, (?:\|[^|\]]*?)?\]\]
\* at position g: the end (exclusive) of the match, 0 when there is none
WikiTailEnd(t, g) ==
    IF g <= Len(t) /\ t[g] = "|"
    THEN LET a == RunEndNot(t, g + 1, {"|", "]"})
         IN  IF StartsAt(t, a, Close2) THEN a + 2 ELSE 0
    ELSE IF StartsAt(t, g, Close2) THEN g + 2 ELSE 0

\* group 1 ([^|\]]*?/+) extended lazily from position j, then group 2
\* ([^/\]|]+) and the tail: the first way the pattern matches
RECURSIVE WikiTry(_, _)
WikiTry(t, j) ==
    IF j > Len(t) \/ t[j] \in {"|", "]"} THEN NoWikiMatch
    ELSE IF t[j] # "/" THEN WikiTry(t, j + 1)
    ELSE LET s == RunEnd(t, j, {"/"})
             g == RunEndNot(t, s, {"/", "]", "|"})
             e == IF g > s THEN WikiTailEnd(t, g) ELSE 0
         IN  IF e # 0 THEN [end |-> e, name |-> SubSeq(t, s, g - 1)]
             ELSE WikiTry(t, j + 1)

\* WIKILINK_PATTERN at position i
WikiMatchAt(t, i) ==
    IF StartsAt(t, i, Open2) THEN WikiTry(t, i + 2) ELSE NoWikiMatch

\* a variant of SimplifiedLink that keeps the whole target
SimplifiedLinkKeepingPath(full_match, note_name) == full_match

\* the replacement computed for one match (full_match, note_name)
SimplifiedLink(full_match, note_name) ==
    IF Contains(full_match, Pipe)
    THEN LET pipe_index == Find(full_match, Pipe, 1)
             closing_index == RIndex(full_match, Close2)
             alias_part == SubSeq(full_match, pipe_index, closing_index - 1)
         IN  Open2 \o note_name \o alias_part
    ELSE Open2 \o note_name \o Close2

\* for match in re.finditer(WIKILINK_PATTERN, content): the pairs
\* <<matches[i], replacements[i]>>, in order
RECURSIVE WikiMatches(_, _)
WikiMatches(t, i) ==
    LET k == NextIn({j \in 1..Len(t) : WikiMatchAt(t, j).end # 0}, i)
    IN  IF k = 0 THEN <<>>
        ELSE <<<<SubSeq(t, k, WikiMatchAt(t, k).end - 1),
                 SimplifiedLink(SubSeq(t, k, WikiMatchAt(t, k).end - 1),
                                WikiMatchAt(t, k).name)>>>>
                 \o WikiMatches(t, WikiMatchAt(t, k).end)

\* for i in range(link_count): content = content.replace(matches[i], replacements[i])
RECURSIVE ReplaceEach(_, _)
ReplaceEach(t, ms) ==
    IF ms = <<>> THEN t
    ELSE ReplaceEach(Replace(t, Head(ms)[1], Head(ms)[2]), Tail(ms))

\* the computation of simplify_wikilinks on the content read
SimplifyText(content) ==
    LET ms == WikiMatches(content, 1)
        link_count == Len(ms)
    IN  IF link_count = 0 THEN [text |-> content, count |-> 0]
        ELSE [text |-> ReplaceEach(content, ms), count |-> link_count]

(***************************************************************************)
(* convert_tags_to_wikilinks.py: the tag converter.                        *)
(***************************************************************************)
Dashes3 == <<"-", "-", "-">>

\* [a-zA-Z0-9_.-]
SegChars == AsciiWordChars \cup {".", "-"}

\* (?<!\w) at position i
NotAfterWord(t, i) == i = 1 \/ ~IsWord(t[i - 1])

\* (?!\w) at position e
NotBeforeWord(t, e) == e > Len(t) \/ ~IsWord(t[e])

\* (?:/[a-zA-Z0-9_.-]+)*(?!\w) from position e, greedy with backtracking:
\* the end (exclusive) of the first way it matches, 0 when there is none
RECURSIVE NestedEnd(_, _)
NestedEnd(t, e) ==
    LET r == IF e <= Len(t) /\ t[e] = "/" THEN RunEnd(t, e + 1, SegChars) ELSE e
    IN  IF r > e + 1
        THEN LET full == NestedEnd(t, r)
                 shorter == {k \in (e + 2)..(r - 1) : NotBeforeWord(t, k)}
             IN  IF full # 0 THEN full
                 ELSE IF shorter # {}
                      THEN CHOOSE k \in shorter : \A j \in shorter : j <= k
                      ELSE IF NotBeforeWord(t, e) THEN e ELSE 0
        ELSE IF NotBeforeWord(t, e) THEN e ELSE 0

\* tag_pattern at position i: the end (exclusive) of the match, else 0
TagMatchEnd(t, i, tag, exact_match) ==
    IF ~(StartsAt(t, i, tag) /\ NotAfterWord(t, i)) THEN 0
    ELSE IF exact_match
         THEN (IF NotBeforeWord(t, i + Len(tag)) THEN i + Len(tag) ELSE 0)
         ELSE NestedEnd(t, i + Len(tag))

\* the start of the leftmost match of tag_pattern at or after position i,
\* 0 when there is none
NextTag(t, i, tag, exact_match) ==
    LET starts == {k \in i..Len(t) : TagMatchEnd(t, k, tag, exact_match) # 0}
    IN  IF starts = {} THEN 0 ELSE SetMin(starts)

\* re.findall(tag_pattern, body_content): the number of matches
RECURSIVE TagCount(_, _, _, _)
TagCount(t, i, tag, exact_match) ==
    LET k == NextTag(t, i, tag, exact_match)
    IN  IF k = 0 THEN 0
        ELSE 1 + TagCount(t, TagMatchEnd(t, k, tag, exact_match), tag, exact_match)

\* re.sub(tag_pattern, "[[wikilink]]", body_content)
RECURSIVE TagSub(_, _, _, _, _)
TagSub(t, i, tag, link, exact_match) ==
    LET k == NextTag(t, i, tag, exact_match)
    IN  IF k = 0 THEN From(t, i)
        ELSE SubSeq(t, i, k - 1) \o link
                 \o TagSub(t, TagMatchEnd(t, k, tag, exact_match), tag, link,
                           exact_match)

\* the split of the content into front matter and body: the length of
\* yaml_content (0 when there is none)
YamlLen(content) ==
    IF StartsAt(content, 1, Dashes3)
    THEN LET yaml_end == Find(content, Dashes3, 4)
         IN  IF yaml_end # 0 THEN yaml_end + 2 ELSE 0
    ELSE 0

\* str.split("\n")
RECURSIVE SplitLines(_)
SplitLines(t) ==
    LET p == Find(t, <<NL>>, 1)
    IN  IF p = 0 THEN <<t>>
        ELSE <<SubSeq(t, 1, p - 1)>> \o SplitLines(From(t, p + 1))

\* "\n".join(lines)
RECURSIVE JoinLines(_)
JoinLines(ls) ==
    IF ls = <<>> THEN <<>>
    ELSE IF Len(ls) = 1 THEN ls[1]
    ELSE ls[1] \o <<NL>> \o JoinLines(Tail(ls))

TagsKey == <<"t", "a", "g", "s", ":">>
RelatedKey == <<"r", "e", "l", "a", "t", "e", "d", ":">>

\* [[wikilink]]
WikiLinkOf(wikilink) == Open2 \o wikilink \o Close2

\*   - "[[wikilink]]"
RelatedEntry(wikilink) ==
    <<" ", " ", "-", " ", "\"">> \o WikiLinkOf(wikilink) \o <<"\"">>

\* one turn of the loop over yaml_lines; st holds in_tags_block, yaml_count
\* and modified_yaml_lines
YamlLineStep(st, line, yaml_content, tag, wikilink, exact_match) ==
    LET sl == Strip(line)
        tag_in_line == Strip(Tail(sl))
    IN  IF StartsAt(sl, 1, TagsKey)
        THEN [st EXCEPT !.in_tags_block = TRUE, !.lines = Append(@, line)]
        ELSE IF st.in_tags_block /\ StartsAt(sl, 1, <<"-">>)
        THEN IF \/ tag_in_line = Strip(tag)
                \/ (~exact_match /\ StartsAt(tag_in_line, 1, Strip(tag)))
             THEN IF ~Contains(yaml_content, RelatedKey)
                  THEN [st EXCEPT !.lines =
                           Append(@, RelatedKey \o <<NL>> \o RelatedEntry(wikilink))]
                  ELSE [st EXCEPT !.yaml_count = @ + 1]
             ELSE [st EXCEPT !.lines = Append(@, line)]
        ELSE IF StartsAt(sl, 1, RelatedKey) /\ st.yaml_count > 0
             THEN [in_tags_block |-> FALSE, yaml_count |-> 0,
                   lines |-> st.lines \o <<line, RelatedEntry(wikilink)>>]
             ELSE [st EXCEPT !.in_tags_block = FALSE, !.lines = Append(@, line)]

RECURSIVE YamlLoop(_, _, _, _, _, _)
YamlLoop(st, ls, yaml_content, tag, wikilink, exact_match) ==
    IF ls = <<>> THEN st
    ELSE YamlLoop(YamlLineStep(st, Head(ls), yaml_content, tag, wikilink, exact_match),
                  Tail(ls), yaml_content, tag, wikilink, exact_match)

\* the front-matter pass: the new yaml_content and the final yaml_count
ConvertYaml(yaml_content, tag, wikilink, exact_match) ==
    LET st == YamlLoop([in_tags_block |-> FALSE, yaml_count |-> 0, lines |-> <<>>],
                       SplitLines(yaml_content), yaml_content, tag, wikilink,
                       exact_match)
    IN  [text |-> JoinLines(st.lines), count |-> st.yaml_count]

\* the computation of convert_tag_to_wikilink on the content read
ConvertTagText(content, tag, wikilink, convert_yaml, exact_match) ==
    IF ~Contains(content, tag) THEN [text |-> content, count |-> 0]
    ELSE LET n == YamlLen(content)
             yaml_content == SubSeq(content, 1, n)
             body_content == From(content, n + 1)
             tag_count == TagCount(body_content, 1, tag, exact_match)
             new_body == TagSub(body_content, 1, tag, WikiLinkOf(wikilink), exact_match)
             y == IF convert_yaml /\ yaml_content # <<>>
                  THEN ConvertYaml(yaml_content, tag, wikilink, exact_match)
                  ELSE [text |-> yaml_content, count |-> 0]
         IN  [text |-> y.text \o new_body, count |-> tag_count + y.count]

(***************************************************************************)
(* fix_daily_navigation.py: the navigation-row fixer.                      *)
(***************************************************************************)
\* DAILY_NOTES_DIR = "01 - Calendar/Daily"
DAILY_NOTES_DIR ==
    <<"0","1"," ","-"," ","C","a","l","e","n","d","a","r","/","D","a","i","l","y">>

\* WEEKLY_NOTES_DIR = "01 - Calendar/Weekly"
WEEKLY_NOTES_DIR ==
    <<"0","1"," ","-"," ","C","a","l","e","n","d","a","r","/","W","e","e","k","l","y">>

LeftArrows == <<LARROW, LARROW>>
RightArrows == <<RARROW, RARROW>>

NavFail == [ok |-> FALSE]

\* the fourth slot and the closing arrows,
\*   ([^\]/|]+)(?:\s*\|([^\]/]+))?\s*→→
\* from position p: the arrows may stand inside the run of the target or of
\* the alias, so both are tried greedy first: the target from its longest
\* end, and for each the alias (longest first) before its absence
NavLastAliasEnds(t, q) ==
    {ae \in (q + 2)..RunEndNot(t, q + 1, {"]", "/"}) :
        StartsAt(t, SkipSpace(t, ae), RightArrows)}

NavLastOk(t, te) ==
    LET q == SkipSpace(t, te)
    IN  \/ (q <= Len(t) /\ t[q] = "|" /\ NavLastAliasEnds(t, q) # {})
        \/ StartsAt(t, q, RightArrows)

NavLast(t, p, acc) ==
    LET ends == {te \in (p + 1)..RunEndNot(t, p, {"]", "/", "|"}) : NavLastOk(t, te)}
    IN  IF ends = {} THEN NavFail
        ELSE LET te == SetMax(ends)
                 q == SkipSpace(t, te)
                 target == SubSeq(t, p, te - 1)
             IN  IF q <= Len(t) /\ t[q] = "|" /\ NavLastAliasEnds(t, q) # {}
                 THEN LET ae == SetMax(NavLastAliasEnds(t, q))
                      IN  [ok |-> TRUE, end |-> SkipSpace(t, ae) + 2,
                           groups |-> Append(acc,
                               [target |-> target, has_alias |-> TRUE,
                                alias |-> SubSeq(t, q + 1, ae - 1)])]
                 ELSE [ok |-> TRUE, end |-> q + 2,
                       groups |-> Append(acc,
                           [target |-> target, has_alias |-> FALSE, alias |-> <<>>])]

\* slot k of BROKEN_NAV_PATTERN from position p, just after its "[[":
\*   ([^\]/|]+)(?:\s*\|([^\]/]+))?\s*\/\s*\[\[
\* for the first three slots. The target is the whole run up to "|" or "/"
\* and the alias the whole run up to "/": a shorter one leaves a character
\* that neither \s* nor the next literal can take.
RECURSIVE NavSlot(_, _, _, _)
NavSlot(t, p, k, acc) ==
    IF k = 4 THEN NavLast(t, p, acc)
    ELSE LET r == RunEndNot(t, p, {"]", "/", "|"})
             aliased == r <= Len(t) /\ t[r] = "|"
             ar == IF aliased THEN RunEndNot(t, r + 1, {"]", "/"}) ELSE r
             q2 == SkipSpace(t, ar + 1)
         IN  IF /\ r > p
                /\ (aliased => ar > r + 1)
                /\ ar <= Len(t) /\ t[ar] = "/"
                /\ StartsAt(t, q2, Open2)
             THEN NavSlot(t, q2 + 2, k + 1,
                          Append(acc, [target |-> SubSeq(t, p, r - 1),
                                       has_alias |-> aliased,
                                       alias |-> SubSeq(t, r + 1, ar - 1)]))
             ELSE NavFail

\* BROKEN_NAV_PATTERN at position i
NavMatchAt(t, i) ==
    IF StartsAt(t, i, LeftArrows)
    THEN LET q == SkipSpace(t, i + 2)
         IN  IF StartsAt(t, q, Open2) THEN NavSlot(t, q + 2, 1, <<>>) ELSE NavFail
    ELSE NavFail

\* re.search(BROKEN_NAV_PATTERN, content): the first match, with its start
NavSearch(t) ==
    LET starts == {i \in 1..Len(t) : NavMatchAt(t, i).ok}
    IN  IF starts = {} THEN NavFail
        ELSE LET i == SetMin(starts)
                 m == NavMatchAt(t, i)
             IN  [ok |-> TRUE, start |-> i, end |-> m.end, groups |-> m.groups]

\* a variant of FixedSlot that puts every link into the daily folder
FixedSlotAlwaysDaily(dir, g) ==
    Open2 \o DAILY_NOTES_DIR \o <<"/">> \o Strip(g.target)
        \o (IF g.has_alias /\ Strip(g.alias) # <<>>
            THEN <<" ", "|">> \o Strip(g.alias) ELSE <<>>)
        \o Close2

\* one rebuilt link: "[[dir/target" + (" |alias" if alias else "") + "]]"
FixedSlot(dir, g) ==
    LET alias == IF g.has_alias THEN Strip(g.alias) ELSE <<>>
    IN  Open2 \o dir \o <<"/">> \o Strip(g.target)
            \o (IF alias # <<>> THEN <<" ", "|">> \o alias ELSE <<>>)
            \o Close2

\* fixed_nav_row
FixedNavRow(groups) ==
    LET sep == <<" ", "/", " ">>
    IN  LeftArrows \o <<" ">>
            \o FixedSlot(WEEKLY_NOTES_DIR, groups[1]) \o sep
            \o FixedSlot(DAILY_NOTES_DIR, groups[2]) \o sep
            \o FixedSlot(DAILY_NOTES_DIR, groups[3]) \o sep
            \o FixedSlot(WEEKLY_NOTES_DIR, groups[4])
            \o <<" ">> \o RightArrows

\* the computation of fix_navigation_links on the content read
FixNavText(content) ==
    LET nav_match == NavSearch(content)
    IN  IF ~nav_match.ok THEN [text |-> content, count |-> 0]
        ELSE LET nav_row == SubSeq(content, nav_match.start, nav_match.end - 1)
             IN  [text |-> Replace(content, nav_row, FixedNavRow(nav_match.groups)),
                  count |-> 1]

(***************************************************************************)
(* add_yaml_to_files_without_yaml.py: the metadata (YAML) generation tool. *)
(***************************************************************************)
\* content.split("---", 2) on a content that starts with "---": the
\* position of the second delimiter, 0 when there is none (two parts only)
SecondDelimiter(content) == Find(content, Dashes3, 4)

\* extract_content_parts on a content that was read: (yaml_content, main_content)
ExtractContentParts(content) ==
    IF StartsAt(content, 1, Dashes3) /\ SecondDelimiter(content) # 0
    THEN LET d == SecondDelimiter(content)
         IN  [yaml |-> Strip(SubSeq(content, 4, d - 1)),
              main |-> Strip(From(content, d + 3))]
    ELSE [yaml |-> <<>>, main |-> Strip(content)]

\* a variant of NewYamlContent that leaves out the closing delimiter
NewYamlContentUnclosed(yaml_content, main_content) ==
    Dashes3 \o <<NL>> \o Strip(yaml_content) \o <<NL, NL>> \o main_content

\* new_content = f"---\n{yaml_content.strip()}\n---\n\n{main_content}"
NewYamlContent(yaml_content, main_content) ==
    Dashes3 \o <<NL>> \o Strip(yaml_content) \o <<NL>> \o Dashes3 \o <<NL, NL>>
        \o main_content

(***************************************************************************)
(* The batch runs.  One run of one tool over the notes it enumerates.      *)
(***************************************************************************)
\* the number of notes of the vault
NumFiles == 2

Files == 1..NumFiles

Tools == {"tags", "links", "nav", "done", "yaml"}

\* what the file system can do to one file operation of a step:
\*   read         open/read raises OSError
\*   decode       the note is not valid UTF-8 (UnicodeDecodeError)
\*   backup_open  opening the backup file raises
\*   backup_write writing the backup raises after the file was created
\*   write_open   opening the note for writing raises
\*   write_write  writing the note raises after it was truncated
Faults == {"none", "read", "decode", "backup_open", "backup_write",
           "write_open", "write_write"}

\* the class of the exception a fault raises
ExceptionClass(fault) ==
    IF fault = "decode" THEN "UnicodeDecodeError" ELSE "OSError"

\* a variant of Caught: only "except UnicodeDecodeError"
CaughtDecodeOnly(fault) == ExceptionClass(fault) = "UnicodeDecodeError"

\* the per-file handlers end in "except Exception": every class is caught
Caught(fault) == ExceptionClass(fault) \in {"UnicodeDecodeError", "OSError"}

VARIABLES
    tool,            \* the tool of this run
    opts,            \* its command-line options
    fs,              \* the notes: file -> content
    bak,             \* the backup files: <<file, suffix>> -> content
    todo,            \* md_files still to process, in order
    file_count,      \* len(md_files)
    modified_files,  \* the list of (file, count) / files_modified
    total,           \* the running total of the counts
    files_skipped,   \* metadata tool: files_skipped
    files_error,     \* metadata tool: files_error
    pc,              \* "run", "done" (summary printed) or "aborted"
    summary,         \* what the summary report prints
    orig,            \* history: the notes before the run
    outcome,         \* history: file -> what happened to it
    rw               \* the rewrite rules applied to one text (SpecRewrite)

vars == <<tool, opts, fs, bak, todo, file_count, modified_files, total,
          files_skipped, files_error, pc, summary, orig, outcome, rw>>

EmptyMap == [p \in {} |-> <<>>]

(* ---- the notes and options the runs are explored with ---- *)
TagA == <<"#", "a">>
TagAB == <<"#", "a", "/", "b">>

TagNotes ==
    { <<"#","a"," ","x">>,
      <<"#","a","/","b">>,
      <<"x","#","a">>,
      <<"y">>,
      <<"-","-","-",NL,"t","a","g","s",":",NL,"-"," ","#","a",NL,"-","-","-",NL,"#","a">> }

LinkNotes ==
    { <<"[","[","a","/","b","]","]">>,
      <<"[","[","a","/","b","|","c","]","]">>,
      <<"[","[","b","]","]">>,
      <<>> }

NavNotes ==
    { <<LARROW,LARROW,"[","[","a","|","x","/","[","[","b","/","[","[","c","/",
        "[","[","d",RARROW,RARROW>>,
      <<LARROW,LARROW,"[","[","a","]","]","/","[","[","b","]","]",RARROW,RARROW>>,
      <<"x">> }

DoneNotes ==
    { <<"x","#","d","o","n","e">>,
      <<" ","#","d","o","n","e">>,
      <<"#","d","o","n","e","(","1",")">>,
      <<"x">> }

YamlNotes ==
    { <<"b">>,
      <<"-","-","-",NL,"k",NL,"-","-","-",NL,NL,"b">>,
      <<"-","-","-",NL,"k",NL,"-","-","-","b">>,
      <<"-","-","-","x">> }

\* what the generator (generate_yaml_with_ai) may return: the stripped
\* answer of the service, possibly empty, or the fallback block
GeneratedYamls == { <<>>, <<"k">>, <<"t",":",NL>> }

NotesOf(t) ==
    CASE t = "tags" -> TagNotes
      [] t = "links" -> LinkNotes
      [] t = "nav" -> NavNotes
      [] t = "done" -> DoneNotes
      [] t = "yaml" -> YamlNotes

\* start_at = 0 and max_files = None; -1 stands for None
NoLimit == -1

OptionsOf(t) ==
    LET common == [dry_run : BOOLEAN, create_backup : BOOLEAN]
    IN  CASE t = "tags" ->
                 { [dry_run |-> c.dry_run, create_backup |-> c.create_backup,
                    tag |-> tg, wikilink |-> <<"W">>,
                    convert_yaml |-> cy, exact_match |-> ex] :
                     c \in common, tg \in {TagA, TagAB},
                     cy \in BOOLEAN, ex \in BOOLEAN }
          [] t = "links" ->
                 { [dry_run |-> c.dry_run, create_backup |-> c.create_backup,
                    max_size_kb |-> ms, start_at |-> sa, max_files |-> mf] :
                     c \in common, ms \in {0, 1000},
                     sa \in {0, 1}, mf \in {NoLimit, 1} }
          [] t \in {"nav", "done"} -> common
          [] t = "yaml" -> { [dry_run |-> FALSE, create_backup |-> TRUE] }

\* md_files as the run enumerates it (simplify_wikilinks.process_vault
\* sorts it and applies start_at and max_files)
RECURSIVE Range(_, _)
Range(a, b) == IF a > b THEN <<>> ELSE <<a>> \o Range(a + 1, b)

Enumerated(t, o) ==
    IF t = "links"
    THEN LET from == IF o.start_at > 0 THEN o.start_at + 1 ELSE 1
             rest == Range(from, NumFiles)
         IN  IF o.max_files # NoLimit
             THEN SubSeq(rest, 1, IF Len(rest) < o.max_files THEN Len(rest) ELSE o.max_files)
             ELSE rest
    ELSE Range(1, NumFiles)

RwOff == [stage |-> "off"]

Init ==
    /\ tool \in Tools
    /\ opts \in OptionsOf(tool)
    /\ fs \in [Files -> NotesOf(tool)]
    /\ orig = fs
    /\ bak = EmptyMap
    /\ todo = Enumerated(tool, opts)
    /\ file_count = Len(todo)
    /\ modified_files = <<>>
    /\ total = 0
    /\ files_skipped = <<>>
    /\ files_error = <<>>
    /\ pc = "run"
    /\ summary = <<>>
    /\ outcome = [f \in Files |-> "pending"]
    /\ rw = RwOff

(* ---- the safe write shared by the four rewrite tools ---- *)
DotBackup == <<".", "b", "a", "c", "k", "u", "p">>

\* tag.replace('#', '')
RECURSIVE WithoutHash(_)
WithoutHash(tag) ==
    IF tag = <<>> THEN <<>>
    ELSE (IF Head(tag) = "#" THEN <<>> ELSE <<Head(tag)>>) \o WithoutHash(Tail(tag))

\* the suffix of backup_path = file_path + suffix
BackupSuffix(t, o) ==
    CASE t = "tags" -> <<".">> \o WithoutHash(o.tag) \o DotBackup
      [] t = "nav" -> <<".", "n", "a", "v", "f", "i", "x">> \o DotBackup
      [] t \in {"links", "done"} -> DotBackup
      [] t = "yaml" -> <<".", "b", "a", "k">>

\* open(backup_path, "w") can create the file: a "/" in the suffix names a
\* directory beside the note that does not exist (FileNotFoundError)
PathUsable(suffix) == \A i \in 1..Len(suffix) : suffix[i] # "/"

Unchanged(fsv, bakv) ==
    [fs |-> fsv, bak |-> bakv, was_modified |-> FALSE, count |-> 0,
     what |-> "unchanged", raised |-> "none"]

Failed(fsv, bakv, what, fault) ==
    [fs |-> fsv, bak |-> bakv, was_modified |-> FALSE, count |-> 0,
     what |-> what, raised |-> fault]

\* a variant of Commit that goes on to write the note when the backup failed
CommitDespiteBackupFailure(fsv, bakv, f, content, r, suffix, o, fault) ==
    [fs |-> [fsv EXCEPT ![f] = r.text],
     bak |-> IF o.create_backup /\ PathUsable(suffix)
                /\ fault \notin {"backup_open", "backup_write"}
             THEN (<<f, suffix>> :> content) @@ bakv ELSE bakv,
     was_modified |-> TRUE, count |-> r.count, what |-> "rewritten",
     raised |-> "none"]

\* "if not dry_run:" the backup, if requested, then the write; an exception
\* of either leaves through "except Exception: return False, 0"
Commit(fsv, bakv, f, content, r, suffix, o, fault) ==
    LET path == <<f, suffix>>
        backupFails ==
            o.create_backup
                /\ (~PathUsable(suffix) \/ fault \in {"backup_open", "backup_write"})
        bak1 ==
            IF ~o.create_backup \/ ~PathUsable(suffix) \/ fault = "backup_open"
            THEN bakv
            ELSE IF fault = "backup_write" THEN (path :> <<>>) @@ bakv
            ELSE (path :> content) @@ bakv
    IN  IF backupFails THEN Failed(fsv, bak1, "backup_error", "backup_open")
        ELSE IF fault = "write_open" THEN Failed(fsv, bak1, "write_error", fault)
        ELSE IF fault = "write_write"
        THEN Failed([fsv EXCEPT ![f] = <<>>], bak1, "write_error", fault)
        ELSE [fs |-> [fsv EXCEPT ![f] = r.text], bak |-> bak1,
              was_modified |-> TRUE, count |-> r.count, what |-> "rewritten",
              raised |-> "none"]

\* what a dry run returns for a content that changes
Reported(fsv, bakv, r) ==
    [fs |-> fsv, bak |-> bakv, was_modified |-> TRUE, count |-> r.count,
     what |-> "rewritten", raised |-> "none"]

\* a variant of SafeWrite that does not look at dry_run
SafeWriteIgnoringDryRun(fsv, bakv, f, content, r, suffix, o, fault) ==
    IF r.text = content THEN Unchanged(fsv, bakv)
    ELSE Commit(fsv, bakv, f, content, r, suffix, o, fault)

\* a variant of SafeWrite that does not compare the contents
SafeWriteWithoutComparison(fsv, bakv, f, content, r, suffix, o, fault) ==
    IF o.dry_run THEN Reported(fsv, bakv, r)
    ELSE Commit(fsv, bakv, f, content, r, suffix, o, fault)

\* "if content != modified_content: if not dry_run: ... return True, count"
\* and "return False, 0" otherwise: the file system after it, what the
\* handler returns and what happened
SafeWrite(fsv, bakv, f, content, r, suffix, o, fault) ==
    IF r.text = content THEN Unchanged(fsv, bakv)
    ELSE IF o.dry_run THEN Reported(fsv, bakv, r)
    ELSE Commit(fsv, bakv, f, content, r, suffix, o, fault)

\* the outcome of a handler whose read raised
ReadFailed(fsv, bakv, fault) == Failed(fsv, bakv, "read_error", fault)

IsError(what) == what \in {"read_error", "backup_error", "write_error"}

(* ---- the per-file handlers: the computation, then the safe write ---- *)
\* convert_tag_to_wikilink(file_path, tag, wikilink, create_backup, dry_run, ...)
ConvertTagHandler(fsv, bakv, f, o, fault) ==
    IF fault \in {"read", "decode"} THEN ReadFailed(fsv, bakv, fault)
    ELSE SafeWrite(fsv, bakv, f, fsv[f],
                   ConvertTagText(fsv[f], o.tag, o.wikilink, o.convert_yaml,
                                  o.exact_match),
                   BackupSuffix("tags", o), o, fault)

\* os.path.getsize(file_path): a character is one byte, an arrow three
ByteLen(t) ==
    Len(t) + 2 * Cardinality({i \in 1..Len(t) : t[i] \in {LARROW, RARROW}})

\* simplify_wikilinks(file_path, create_backup, dry_run, max_size_kb)
SimplifyHandler(fsv, bakv, f, o, fault) ==
    IF fault \in {"read", "decode"} THEN ReadFailed(fsv, bakv, fault)
    ELSE IF ByteLen(fsv[f]) > o.max_size_kb * 1024
    THEN [fs |-> fsv, bak |-> bakv, was_modified |-> FALSE, count |-> 0,
          what |-> "skipped_large", raised |-> "none"]
    ELSE SafeWrite(fsv, bakv, f, fsv[f], SimplifyText(fsv[f]),
                   BackupSuffix("links", o), o, fault)

\* fix_navigation_links(file_path, create_backup, dry_run)
FixNavHandler(fsv, bakv, f, o, fault) ==
    IF fault \in {"read", "decode"} THEN ReadFailed(fsv, bakv, fault)
    ELSE SafeWrite(fsv, bakv, f, fsv[f], FixNavText(fsv[f]),
                   BackupSuffix("nav", o), o, fault)

\* clean_done_tags(file_path, create_backup, dry_run, verbose): a note that
\* is not UTF-8 is read again as latin-1 and handled the same way (fault2 is
\* what the file system does to that second attempt)
CleanDoneHandler(fsv, bakv, f, o, fault, fault2) ==
    IF fault = "read" THEN ReadFailed(fsv, bakv, fault)
    ELSE IF fault = "decode"
    THEN IF fault2 \in {"read", "decode"} THEN ReadFailed(fsv, bakv, fault2)
         ELSE SafeWrite(fsv, bakv, f, fsv[f], CleanDoneText(fsv[f]),
                        BackupSuffix("done", o), o, fault2)
    ELSE SafeWrite(fsv, bakv, f, fsv[f], CleanDoneText(fsv[f]),
                   BackupSuffix("done", o), o, fault)

(* ---- process_vault / process_daily_notes: one turn of the loop ---- *)
\* was_modified, n = handler(...); if was_modified: modified_files.append(...)
Record(f, res) ==
    /\ fs' = res.fs
    /\ bak' = res.bak
    /\ modified_files' =
           IF res.was_modified THEN Append(modified_files, <<f, res.count>>)
           ELSE modified_files
    /\ total' = IF res.was_modified THEN total + res.count ELSE total
    /\ outcome' = [outcome EXCEPT ![f] = res.what]
    /\ todo' = Tail(todo)
    /\ pc' = IF res.raised # "none" /\ ~Caught(res.raised) THEN "aborted" ELSE "run"
    /\ UNCHANGED <<tool, opts, file_count, files_skipped, files_error, summary,
                   orig, rw>>

ConvertTagFile ==
    /\ pc = "run" /\ tool = "tags" /\ todo # <<>>
    /\ \E fault \in Faults :
           Record(Head(todo), ConvertTagHandler(fs, bak, Head(todo), opts, fault))

SimplifyFile ==
    /\ pc = "run" /\ tool = "links" /\ todo # <<>>
    /\ \E fault \in Faults :
           Record(Head(todo), SimplifyHandler(fs, bak, Head(todo), opts, fault))

FixNavFile ==
    /\ pc = "run" /\ tool = "nav" /\ todo # <<>>
    /\ \E fault \in Faults :
           Record(Head(todo), FixNavHandler(fs, bak, Head(todo), opts, fault))

CleanDoneFile ==
    /\ pc = "run" /\ tool = "done" /\ todo # <<>>
    /\ \E fault \in Faults, fault2 \in Faults :
           Record(Head(todo),
                  CleanDoneHandler(fs, bak, Head(todo), opts, fault, fault2))

\* main(): the summary report of a rewrite tool, printed after the loop
RewriteSummary ==
    /\ pc = "run" /\ tool # "yaml" /\ todo = <<>>
    /\ summary' = [total_files |-> file_count, modified_files |-> modified_files,
                   total |-> total]
    /\ pc' = "done"
    /\ UNCHANGED <<tool, opts, fs, bak, todo, file_count, modified_files, total,
                   files_skipped, files_error, orig, outcome, rw>>

(* ---- process_all_markdown_files: one turn of the loop ---- *)
YamlSuffix == BackupSuffix("yaml", [dry_run |-> FALSE])

\* the body of the per-file "try:" of process_all_markdown_files.  A read the
\* note refuses makes extract_content_parts return ("", ""); under fault
\* "read" shutil.copy2 cannot read the note either, under "decode" it copies
\* the bytes.
AddYamlHandler(fsv, bakv, f, gen, fault) ==
    LET content == fsv[f]
        parts == IF fault \in {"read", "decode"} THEN [yaml |-> <<>>, main |-> <<>>]
                 ELSE ExtractContentParts(content)
        path == <<f, YamlSuffix>>
        bak1 == IF fault \in {"read", "backup_open"} THEN bakv
                ELSE IF fault = "backup_write" THEN (path :> <<>>) @@ bakv
                ELSE (path :> content) @@ bakv
    IN  IF fault \in {"read", "backup_open", "backup_write"}
        THEN [fs |-> fsv, bak |-> bak1, list |-> "skipped",
              what |-> IF fault = "read" THEN "read_error" ELSE "backup_error",
              raised |-> "none"]
        ELSE IF gen = <<>>
        THEN [fs |-> fsv, bak |-> bak1, list |-> "skipped",
              what |-> IF fault = "decode" THEN "read_error" ELSE "skipped_empty",
              raised |-> "none"]
        ELSE IF fault = "write_open"
        THEN [fs |-> fsv, bak |-> bak1, list |-> "error", what |-> "write_error",
              raised |-> fault]
        ELSE IF fault = "write_write"
        THEN [fs |-> [fsv EXCEPT ![f] = <<>>], bak |-> bak1, list |-> "error",
              what |-> "write_error", raised |-> fault]
        ELSE [fs |-> [fsv EXCEPT ![f] = NewYamlContent(gen, parts.main)],
              bak |-> bak1, list |-> "modified",
              what |-> IF fault = "decode" THEN "read_error" ELSE "rewritten",
              raised |-> "none"]

AddYamlFile ==
    /\ pc = "run" /\ tool = "yaml" /\ todo # <<>>
    /\ \E fault \in Faults, gen \in GeneratedYamls :
           LET f == Head(todo)
               res == AddYamlHandler(fs, bak, f, gen, fault)
           IN  /\ fs' = res.fs
               /\ bak' = res.bak
               /\ modified_files' = IF res.list = "modified"
                                    THEN Append(modified_files, f) ELSE modified_files
               /\ files_skipped' = IF res.list = "skipped"
                                   THEN Append(files_skipped, f) ELSE files_skipped
               /\ files_error' = IF res.list = "error"
                                 THEN Append(files_error, f) ELSE files_error
               /\ outcome' = [outcome EXCEPT ![f] = res.what]
               /\ todo' = Tail(todo)
               /\ pc' = IF res.raised # "none" /\ ~Caught(res.raised)
                        THEN "aborted" ELSE "run"
    /\ UNCHANGED <<tool, opts, file_count, total, summary, orig, rw>>

\* the "--- Update Complete ---" report
YamlSummary ==
    /\ pc = "run" /\ tool = "yaml" /\ todo = <<>>
    /\ summary' = [files_modified |-> modified_files, files_skipped |-> files_skipped,
                   files_error |-> files_error]
    /\ pc' = "done"
    /\ UNCHANGED <<tool, opts, fs, bak, todo, file_count, modified_files, total,
                   files_skipped, files_error, orig, outcome, rw>>

Next ==
    \/ ConvertTagFile
    \/ SimplifyFile
    \/ FixNavFile
    \/ CleanDoneFile
    \/ RewriteSummary
    \/ AddYamlFile
    \/ YamlSummary

Spec == Init /\ [][Next]_vars

(***************************************************************************)
(* Properties of the batch runs.                                           *)
(***************************************************************************)
RewriteTools == {"tags", "links", "nav", "done"}

\* the computation of the rewrite tool t on a content
RewriteOf(t, o, content) ==
    CASE t = "tags" -> ConvertTagText(content, o.tag, o.wikilink, o.convert_yaml,
                                      o.exact_match)
      [] t = "links" -> SimplifyText(content)
      [] t = "nav" -> FixNavText(content)
      [] t = "done" -> CleanDoneText(content)

\* the backup path of note f in this run, and the backup files of f
BackupPath(f) == <<f, BackupSuffix(tool, opts)>>

BackupsOf(f) == {p \in DOMAIN bak : p[1] = f}

\* the files the run lists as modified
ListedModified ==
    IF tool = "yaml" THEN {modified_files[i] : i \in 1..Len(modified_files)}
    ELSE {modified_files[i][1] : i \in 1..Len(modified_files)}

\* the files the summary report lists as errored: the report of the rewrite
\* tools has no such section, the metadata tool prints files_error
ListedErrored ==
    IF pc = "done" /\ tool = "yaml"
    THEN {summary.files_error[i] : i \in 1..Len(summary.files_error)}
    ELSE {}

SeqRange(q) == {q[i] : i \in 1..Len(q)}

\* C1: in the four rewrite tools a dry run never overwrites a note and
\* never creates a backup file, whatever create_backup is: every note keeps
\* the content it had before the run and no backup file exists.
C1_DryRunTouchesNothing ==
    (tool \in RewriteTools /\ opts.dry_run) => (fs = orig /\ DOMAIN bak = {})

\* a finished dry run with backups requested that reports a modified note
C1_Witness ==
    /\ tool \in RewriteTools /\ opts.dry_run /\ opts.create_backup
    /\ pc = "done" /\ modified_files # <<>>

\* C2: with create_backup set and dry_run off, a note whose content was
\* overwritten has a backup file holding exactly the content read from it;
\* a note whose backup failed keeps its original content.
C2_BackupBeforeOverwrite ==
    \A f \in Files :
        /\ (opts.create_backup /\ ~opts.dry_run /\ fs[f] # orig[f])
               => (BackupPath(f) \in DOMAIN bak /\ bak[BackupPath(f)] = orig[f])
        /\ outcome[f] = "backup_error" => fs[f] = orig[f]

\* one note rewritten with its backup, another whose backup failed
C2_Witness ==
    \E f, g \in Files :
        /\ opts.create_backup /\ ~opts.dry_run
        /\ fs[f] # orig[f] /\ outcome[f] = "rewritten"
        /\ BackupPath(f) \in DOMAIN bak /\ bak[BackupPath(f)] = orig[f]
        /\ outcome[g] = "backup_error" /\ fs[g] = orig[g]

\* C3: in the four rewrite tools, a note for which the computed content
\* equals the content read is not written, gets no backup file and is not
\* listed as modified, under every combination of dry_run and create_backup
\* and also when the pattern matched.
C3_NoChangeNoWrite ==
    \A f \in Files :
        (/\ tool \in RewriteTools
         /\ outcome[f] # "pending"
         /\ RewriteOf(tool, opts, orig[f]).text = orig[f])
            => (fs[f] = orig[f] /\ BackupsOf(f) = {} /\ f \notin ListedModified)

\* a real run with backups of the #done cleaner over a note whose tag
\* matched the pattern and whose content stayed the same
C3_Witness ==
    \E f \in Files :
        /\ tool = "done" /\ ~opts.dry_run /\ opts.create_backup
        /\ outcome[f] = "unchanged"
        /\ CleanDoneText(orig[f]).count > 0
        /\ fs[f] = orig[f]

\* C4: the metadata tool creates a backup only for the notes it rewrites:
\* a note that ends the run skipped or errored has no backup file, and a
\* note whose new content equals its original is neither backed up nor
\* written.
C4_BackupOnlyForRewrittenNotes ==
    tool = "yaml" =>
        \A f \in Files :
            BackupsOf(f) # {} => (f \in ListedModified /\ fs[f] # orig[f])

\* C5: an error on one file never stops the batch: the run never aborts on
\* an exception, the files still to process are exactly the enumerated
\* files not yet handled, and the summary comes only once none is left.
C5_ErrorsDoNotStopTheBatch ==
    /\ pc \in {"run", "done"}
    /\ {f \in SeqRange(Enumerated(tool, opts)) : outcome[f] = "pending"} = SeqRange(todo)
    /\ pc = "done" => todo = <<>>

\* a finished run in which the first file failed and the last was rewritten
C5_Witness ==
    /\ pc = "done" /\ NumFiles > 1
    /\ IsError(outcome[1])
    /\ outcome[NumFiles] = "rewritten"

\* C6: every file whose processing failed with an error is listed as
\* errored in the final summary, apart from the files left unmodified.
C6_ErrorsAreReported ==
    pc = "done" => \A f \in Files : IsError(outcome[f]) => f \in ListedErrored

\* C7: a note that could not be read or decoded is never overwritten and is
\* not taken for an empty document: it keeps its content and is not listed
\* as modified.
C7_UnreadableNoteIsKept ==
    \A f \in Files :
        outcome[f] = "read_error" => (fs[f] = orig[f] /\ f \notin ListedModified)

(***************************************************************************)
(* The rewrite rules on one note: a tool is run over a note, and run again *)
(* over the note it left.                                                  *)
(***************************************************************************)
MaxTokens == 3
MaxTarget == 3

\* the texts made of at most n of the tokens
RECURSIVE TokenTexts(_, _)
TokenTexts(tokens, n) ==
    IF n = 0 THEN {<<>>}
    ELSE LET shorter == TokenTexts(tokens, n - 1)
         IN  shorter \cup {t \o k : t \in shorter, k \in tokens}

TagTokens == {TagA, <<"/">>, <<"b">>, <<" ">>, <<EACUTE>>}

\* notes with a nested tag beside the bare one, and with front matter whose
\* tags list holds a longer tag
TagExamples ==
    { <<"#","a","/","b"," ","#","a">>,
      <<"#","a","/","b",EACUTE>>,
      <<"-","-","-",NL,"t","a","g","s",":",NL,"-"," ","#","a","b",NL,"-","-","-",NL,"y">> }
\* a note in which the removal of a tag with parentheses puts "#do" and "ne"
\* together, beside a tag without parentheses
DoneExamples ==
    { <<"x","#","d","o","#","d","o","n","e","(",")","n","e"," ","#","d","o","n","e">> }

\* notes whose front matter holds the tag in its tags list: with a related:
\* key before the list, with one after it, and with the tag twice
YamlTagExamples ==
    { <<"-","-","-",NL>> \o RelatedKey \o <<NL,"-"," ","x",NL>> \o TagsKey
          \o <<NL,"-"," ","#","a",NL,"-","-","-",NL,"y">>,
      <<"-","-","-",NL>> \o TagsKey \o <<NL,"-"," ","#","a",NL>> \o RelatedKey
          \o <<NL,"-"," ","x",NL,"-","-","-",NL,"y">>,
      <<"-","-","-",NL>> \o TagsKey
          \o <<NL,"-"," ","#","a",NL,"-"," ","#","a",NL,"-","-","-",NL,"y">> }

\* notes with a tag that goes on with a dash or a dot
TagContinued ==
    { <<"#","a","-","x">>, <<"#","a",".","b">>, <<"x"," ","#","a","-","x">> }

DoneTokens == {DoneLit, DoneLit \o <<"(", ")">>, <<"#", "d", "o">>, <<"n", "e">>,
               <<"x">>, <<" ">>}
TargetTokens == {<<"a">>, <<"b">>, <<"/">>}

\* a wikilink [[target]] or [[target|alias]]; NoAlias stands for no pipe
NoAlias == <<"no alias">>
LinkText(target, alias) ==
    IF alias = NoAlias THEN Open2 \o target \o Close2
    ELSE Open2 \o target \o Pipe \o alias \o Close2

JaneTarget ==
    <<"0","0"," ","-"," ","A","r","c","h","i","v","e","/","P","e","o","p","l","e",
      "/","J","a","n","e"," ","D","o","e">>
JaneAlias == <<"J","a","n","e">>

LinkTargets == TokenTexts(TargetTokens, MaxTarget) \cup {JaneTarget}
LinkAliases == {NoAlias, <<>>, <<"c">>, <<"c", "/", "d">>, JaneAlias}
Around == {<<>>, <<"x", " ">>}

\* a broken navigation row with the four links a, b, c, d
BrokenRow(a, d) ==
    <<LARROW, LARROW>> \o Open2 \o a \o <<"/">> \o Open2 \o <<"b">> \o <<"/">>
        \o Open2 \o <<"c">> \o <<"/">> \o Open2 \o d \o <<RARROW, RARROW>>
BrokenRows ==
    {BrokenRow(a, d) : a \in {<<"a">>, <<"a", "|", "x">>},
                       d \in {<<"d">>, <<"d", "|", "y">>}}

\* a slot of a broken row: the name, white space and, with an alias, a pipe
\* and the alias with white space around it
SlotText(name, alias) ==
    IF alias = NoAlias THEN name
    ELSE name \o <<" ", "|", " ">> \o alias \o <<" ">>

SlotNames == <<<<"a">>, <<"b">>, <<"c">>, <<"d">>, <<"e">>>>

SlotAliases == {NoAlias, <<"x">>}

\* the slots k..n of a row, each opened with [[ and followed by a slash,
\* the last one by the right arrows
RECURSIVE SlotsText(_, _, _)
SlotsText(aliases, k, n) ==
    IF k > n THEN <<>>
    ELSE Open2 \o SlotText(SlotNames[k], aliases[k])
             \o (IF k < n THEN <<"/">> ELSE <<RARROW, RARROW>>)
             \o SlotsText(aliases, k + 1, n)

\* a broken row of n slots
SlotRow(aliases, n) == <<LARROW, LARROW>> \o SlotsText(aliases, 1, n)

SlotRows ==
    {SlotRow(aliases, n) : aliases \in [1..5 -> SlotAliases], n \in 3..5}

\* the options of a real run without backups
RuleOptions(family) ==
    CASE family = "tags" ->
             {o \in OptionsOf("tags") : ~o.dry_run /\ ~o.create_backup}
      [] family = "links" ->
             {o \in OptionsOf("links") :
                  /\ ~o.dry_run /\ ~o.create_backup /\ o.max_size_kb = 1000
                  /\ o.start_at = 0 /\ o.max_files = NoLimit}
      [] family \in {"nav", "done"} ->
             {o \in OptionsOf(family) : ~o.dry_run /\ ~o.create_backup}

RuleTexts(family) ==
    CASE family = "tags" -> TokenTexts(TagTokens, MaxTokens) \cup TagNotes
                                \cup TagExamples \cup YamlTagExamples
                                \cup TagContinued
      [] family = "links" ->
             {pre \o LinkText(target, alias) : pre \in Around,
                  target \in LinkTargets, alias \in LinkAliases} \cup LinkNotes
      [] family = "nav" ->
             BrokenRows \cup {r1 \o <<NL>> \o r2 : r1, r2 \in BrokenRows}
                 \cup NavNotes \cup SlotRows
      [] family = "done" -> TokenTexts(DoneTokens, MaxTokens) \cup DoneNotes
                                \cup DoneExamples

\* what a run over the one note leaves: the text the note holds afterwards
\* and the count the handler returned
Left(res) == [text |-> res.fs[1], count |-> res.count]

\* one run of the tool of the family over a note holding the text
Handle(family, o, note) ==
    CASE family = "tags" -> ConvertTagHandler(note, EmptyMap, 1, o, "none")
      [] family = "links" -> SimplifyHandler(note, EmptyMap, 1, o, "none")
      [] family = "nav" -> FixNavHandler(note, EmptyMap, 1, o, "none")
      [] family = "done" -> CleanDoneHandler(note, EmptyMap, 1, o, "none", "none")

Pass(family, o, text) == Left(Handle(family, o, [f \in {1} |-> text]))

InitRewrite ==
    /\ \E family \in RewriteTools :
       \E o \in RuleOptions(family), text \in RuleTexts(family) :
           rw = [stage |-> "input", family |-> family, o |-> o, input |-> text,
                 text |-> text, count |-> 0, first |-> text]
    /\ tool = rw.family
    /\ opts = rw.o
    /\ fs = [f \in Files |-> <<>>]
    /\ orig = fs
    /\ bak = EmptyMap
    /\ todo = <<>>
    /\ file_count = 0
    /\ modified_files = <<>>
    /\ total = 0
    /\ files_skipped = <<>>
    /\ files_error = <<>>
    /\ pc = "done"
    /\ summary = <<>>
    /\ outcome = [f \in Files |-> "pending"]

Batch == <<tool, opts, fs, bak, todo, file_count, modified_files, total,
           files_skipped, files_error, pc, summary, orig, outcome>>

Once(p) ==
    [rw EXCEPT !.stage = "once", !.text = p.text, !.count = p.count, !.first = p.text]

Twice(p) == [rw EXCEPT !.stage = "twice", !.text = p.text, !.count = p.count]

\* the first run of the tool over the note
ApplyRule ==
    /\ rw.stage = "input"
    /\ rw' = Once(Pass(rw.family, rw.o, rw.text))
    /\ UNCHANGED Batch

\* the second run, over the note the first run left
ReapplyRule ==
    /\ rw.stage = "once"
    /\ rw' = Twice(Pass(rw.family, rw.o, rw.text))
    /\ UNCHANGED Batch

NextRewrite == ApplyRule \/ ReapplyRule

SpecRewrite == InitRewrite /\ [][NextRewrite]_vars

\* the part of a link target after its last slash
HasSlash(target) == \E i \in 1..Len(target) : target[i] = "/"

AfterLastSlash(target) ==
    SubSeq(target, SetMax({i \in 1..Len(target) : target[i] = "/"}) + 1, Len(target))

\* C8: a second pass of a rewrite rule over the text its first pass
\* produced returns that text unchanged with the count 0, for each of the
\* four rule families, every text and every rule parameter.
C8_SecondPassChangesNothing ==
    rw.stage = "twice" => (rw.text = rw.first /\ rw.count = 0)

\* C9: simplifying a wikilink with a path prefix and an alias gives the
\* well-formed link [[name|alias]]: the path prefix is removed, the alias
\* is kept and the closing brackets are present.
C9_AliasedLinkIsWellFormed ==
    \A target \in LinkTargets, alias \in LinkAliases \ {NoAlias}, pre \in Around :
        (/\ rw.stage = "once" /\ rw.family = "links"
         /\ HasSlash(target) /\ AfterLastSlash(target) # <<>>
         /\ rw.input = pre \o LinkText(target, alias))
            => rw.text = pre \o LinkText(AfterLastSlash(target), alias)

\* C10 as stated: a wikilink with a path prefix and no alias becomes [[N]],
\* N being the part of the target after its last slash, and a wikilink
\* whose target has no slash is left unchanged.
C10_PathPrefixIsRemoved ==
    \A target \in LinkTargets, alias \in LinkAliases, pre \in Around :
        (/\ rw.stage = "once" /\ rw.family = "links"
         /\ rw.input = pre \o LinkText(target, alias))
            => /\ (HasSlash(target) /\ alias = NoAlias)
                      => rw.text = pre \o LinkText(AfterLastSlash(target), NoAlias)
               /\ ~HasSlash(target) => rw.text = rw.input

\* C10 amended: a wikilink with a path prefix, no alias and a non-empty
\* name N after the last slash of its target becomes [[N]]; a wikilink whose
\* target has no slash, or ends with a slash, is left unchanged.
C10_PathPrefixIsRemovedFromNamedLinks ==
    \A target \in LinkTargets, alias \in LinkAliases, pre \in Around :
        (/\ rw.stage = "once" /\ rw.family = "links"
         /\ rw.input = pre \o LinkText(target, alias))
            => /\ (HasSlash(target) /\ AfterLastSlash(target) # <<>> /\ alias = NoAlias)
                      => rw.text = pre \o LinkText(AfterLastSlash(target), NoAlias)
               /\ (~HasSlash(target) \/ AfterLastSlash(target) = <<>>)
                      => rw.text = rw.input

\* a link with a two-folder path and no alias, after the text before it,
\* has been simplified to its name
C10_Witness ==
    /\ rw.stage = "once" /\ rw.family = "links"
    /\ rw.input = <<"x", " ">> \o LinkText(<<"a", "/", "b">>, NoAlias)
    /\ rw.text = <<"x", " ">> \o LinkText(<<"b">>, NoAlias)

\* the positions at which the text lit occurs in t
Occurrences(t, lit) == {i \in 1..Len(t) : StartsAt(t, i, lit)}

\* the occurrence of the tag at i continues with a slash and a nested segment
ContinuesNested(t, i, tag) ==
    /\ i + Len(tag) + 1 <= Len(t)
    /\ t[i + Len(tag)] = "/"
    /\ t[i + Len(tag) + 1] \in SegChars \cup WordChars

\* the occurrence of the tag at i touches a word character
TouchesWord(t, i, tag) ==
    \/ (i > 1 /\ IsWord(t[i - 1]))
    \/ (i + Len(tag) <= Len(t) /\ IsWord(t[i + Len(tag)]))

\* C11: in exact-match mode only the bare tag is rewritten: a note in which
\* every occurrence of the tag continues with a slash and a nested segment
\* is left unchanged, character for character.
C11_ExactModeKeepsNestedTags ==
    (/\ rw.stage = "once" /\ rw.family = "tags" /\ rw.o.exact_match
     /\ \A i \in Occurrences(rw.input, rw.o.tag) :
            ContinuesNested(rw.input, i, rw.o.tag))
        => rw.text = rw.input

\* C12: in hierarchical mode a tag and every nested tag under it is replaced
\* as a whole by one link: in the converted text no link is followed by a
\* slash and a nested segment, and "#a/b #a" becomes "[[W]] [[W]]".
C12_HierarchicalModeReplacesWholeTag ==
    (rw.stage = "once" /\ rw.family = "tags" /\ ~rw.o.exact_match)
        => /\ \A i \in Occurrences(rw.text, WikiLinkOf(rw.o.wikilink)) :
                  ~ContinuesNested(rw.text, i, WikiLinkOf(rw.o.wikilink))
           /\ (rw.input = <<"#","a","/","b"," ","#","a">> /\ rw.o.tag = TagA)
                  => rw.text = WikiLinkOf(rw.o.wikilink) \o <<" ">>
                                   \o WikiLinkOf(rw.o.wikilink)

\* C13: tag conversion never rewrites an occurrence of the tag that is
\* immediately preceded or followed by a word character, in exact and in
\* hierarchical mode: a note in which every occurrence of the tag touches a
\* word character is left unchanged.
C13_TagInsideWordIsKept ==
    (/\ rw.stage = "once" /\ rw.family = "tags"
     /\ \A i \in Occurrences(rw.input, rw.o.tag) :
            TouchesWord(rw.input, i, rw.o.tag))
        => rw.text = rw.input

\* C14: after the #done cleaner rewrote a note, the note holds no #done tag
\* of either format, with or without parentheses, whatever character
\* precedes the tag.
C14_NoDoneTagIsLeft ==
    (rw.stage = "once" /\ rw.family = "done" /\ rw.text # rw.input)
        => /\ FindAllDoneParens(rw.text, 1) = <<>>
           /\ FindAllDoneStandalone(rw.text, 1) = <<>>

\* every "#" of the text starts a #done tag
OnlyDoneTags(t) == Occurrences(t, <<"#">>) = Occurrences(t, DoneLit)

\* C15: the count a per-file rewrite returns is the number of occurrences
\* whose text was actually changed: for the #done cleaner the number of tags
\* that are gone from the note, and for the tag converter no rewrite of a
\* note goes with a count of 0.
C15_CountIsTheNumberOfChanges ==
    /\ (rw.stage = "once" /\ rw.family = "done" /\ OnlyDoneTags(rw.input))
           => rw.count = Cardinality(Occurrences(rw.input, DoneLit))
                             - Cardinality(Occurrences(rw.text, DoneLit))
    /\ (rw.stage = "once" /\ rw.family = "tags" /\ rw.text # rw.input)
           => rw.count > 0

(***************************************************************************)
(* The split of a document into front matter and body, its reassembly and  *)
(* the split of the reassembled document.                                  *)
(***************************************************************************)
MaxDocTokens == 6

DocTokens == {Dashes3, <<NL>>, <<"k">>, <<"-">>}

DocTexts == TokenTexts(DocTokens, MaxDocTokens)

InitSplit ==
    /\ \E content \in DocTexts :
           rw = [stage |-> "doc", content |-> content, yaml |-> <<>>,
                 main |-> <<>>, yaml_len |-> 0, joined |-> <<>>,
                 yaml2 |-> <<>>, main2 |-> <<>>]
    /\ tool = "yaml"
    /\ opts \in OptionsOf("yaml")
    /\ fs = [f \in Files |-> <<>>]
    /\ orig = fs
    /\ bak = EmptyMap
    /\ todo = <<>>
    /\ file_count = 0
    /\ modified_files = <<>>
    /\ total = 0
    /\ files_skipped = <<>>
    /\ files_error = <<>>
    /\ pc = "done"
    /\ summary = <<>>
    /\ outcome = [f \in Files |-> "pending"]

Parted(parts, len) ==
    [rw EXCEPT !.stage = "split", !.yaml = parts.yaml, !.main = parts.main,
               !.yaml_len = len]

PartedAgain(parts) ==
    [rw EXCEPT !.stage = "resplit", !.yaml2 = parts.yaml, !.main2 = parts.main]

\* the document is split by the metadata tool and by the tag converter
SplitDocument ==
    /\ rw.stage = "doc"
    /\ rw' = Parted(ExtractContentParts(rw.content), YamlLen(rw.content))
    /\ UNCHANGED Batch

\* the parts are put together again
Reassemble ==
    /\ rw.stage = "split"
    /\ rw' = [rw EXCEPT !.stage = "joined",
                        !.joined = NewYamlContent(rw.yaml, rw.main)]
    /\ UNCHANGED Batch

\* the reassembled document is split
SplitAgain ==
    /\ rw.stage = "joined"
    /\ rw' = PartedAgain(ExtractContentParts(rw.joined))
    /\ UNCHANGED Batch

NextSplit == SplitDocument \/ Reassemble \/ SplitAgain

SpecSplit == InitSplit /\ [][NextSplit]_vars

\* the first line of the text is exactly ---
FirstLineIsDelimiter(t) ==
    StartsAt(t, 1, Dashes3) /\ (Len(t) = 3 \/ t[4] = NL)

\* a --- follows the opening one
HasClosingDelimiter(t) == Find(t, Dashes3, 4) # 0

IsBlank(t) == \A i \in 1..Len(t) : IsSpace(t[i])

\* t is ---, yaml, ---, main with only white space around the two parts
SameUpToBoundaryWhitespace(t, yaml, main) ==
    \E a \in 4..(Len(t) + 1) :
    \E b \in (a + Len(yaml))..(Len(t) - 2) :
    \E c \in (b + 3)..(Len(t) + 1) :
        /\ StartsAt(t, 1, Dashes3)
        /\ IsBlank(SubSeq(t, 4, a - 1))
        /\ SubSeq(t, a, a + Len(yaml) - 1) = yaml
        /\ IsBlank(SubSeq(t, a + Len(yaml), b - 1))
        /\ StartsAt(t, b, Dashes3)
        /\ IsBlank(SubSeq(t, b + 3, c - 1))
        /\ SubSeq(t, c, c + Len(main) - 1) = main
        /\ IsBlank(SubSeq(t, c + Len(main), Len(t)))

\* C16: the split reports a metadata block if and only if the first line is
\* exactly --- and a second --- follows; in every other case (no opening
\* delimiter, a first line that only begins with ---, no closing delimiter)
\* the metadata is empty and the body is the whole trimmed text, and the tag
\* converter finds no front matter either.
C16_BlockOnlyAfterExactFirstLine ==
    (rw.stage = "split"
         /\ ~(FirstLineIsDelimiter(rw.content) /\ HasClosingDelimiter(rw.content)))
        => (rw.yaml = <<>> /\ rw.main = Strip(rw.content) /\ rw.yaml_len = 0)

\* C17: for a document with a well-formed metadata block, the reassembled
\* document is the original up to the white space at the block boundaries,
\* and its split gives the same metadata and the same body.
C17_SplitAndReassemble ==
    (FirstLineIsDelimiter(rw.content) /\ HasClosingDelimiter(rw.content))
        => /\ rw.stage \in {"joined", "resplit"}
                  => /\ SameUpToBoundaryWhitespace(rw.content, rw.yaml, rw.main)
                     /\ SameUpToBoundaryWhitespace(rw.joined, rw.yaml, rw.main)
           /\ rw.stage = "resplit" => (rw.yaml2 = rw.yaml /\ rw.main2 = rw.main)

\* a document with white space around its metadata and its body was split,
\* reassembled into a different text and split again
C17_Witness ==
    /\ rw.stage = "resplit"
    /\ rw.content = Dashes3 \o <<NL, "k", NL>> \o Dashes3 \o <<"k">>
    /\ rw.joined # rw.content
    /\ rw.yaml2 = <<"k">> /\ rw.main2 = <<"k">>

\* the texts between each [[ of t and the ]] that follows it, in order
\* (the text Unclosed where no ]] follows)
Unclosed == <<"unclosed">>

LinkBodies(t) ==
    LET opens == Occurrences(t, Open2)
        nth(k) == CHOOSE i \in opens : Cardinality({j \in opens : j < i}) = k - 1
        next(p) == SetMin({j \in opens \cup {Len(t) + 1} : j > p})
        body(p) == LET q == Find(t, Close2, p + 2)
                   IN  IF q = 0 \/ q > next(p) THEN Unclosed
                       ELSE SubSeq(t, p + 2, q - 1)
    IN  [k \in 1..Cardinality(opens) |-> body(nth(k))]

\* the folder of slot k: weekly for slots 1 and 4, daily for slots 2 and 3
FolderOf(k) == IF k \in {1, 4} THEN WEEKLY_NOTES_DIR ELSE DAILY_NOTES_DIR

\* the links a rebuilt slot may be: folder/name, with the alias after a pipe
ExpectedBodies(k, alias) ==
    IF alias = NoAlias THEN {FolderOf(k) \o <<"/">> \o SlotNames[k]}
    ELSE {FolderOf(k) \o <<"/">> \o SlotNames[k] \o sp \o <<"|">> \o alias :
              sp \in {<<>>, <<" ">>}}

\* C18: the rebuilt row of a matched navigation row has four links, each
\* closed with ]]: slots 1 and 4 in the weekly folder, slots 2 and 3 in the
\* daily folder, each with its name, with its trimmed alias where it had
\* one and with no alias where it had none; a row of three or of five slots
\* between the arrows is left unchanged.
C18_RebuiltNavigationRow ==
    \A aliases \in [1..5 -> SlotAliases], n \in 3..5 :
        (rw.stage = "once" /\ rw.family = "nav" /\ rw.input = SlotRow(aliases, n))
            => IF n = 4
               THEN /\ Len(LinkBodies(rw.text)) = 4
                    /\ \A k \in 1..4 :
                           LinkBodies(rw.text)[k] \in ExpectedBodies(k, aliases[k])
                    /\ StartsAt(rw.text, 1, LeftArrows)
                    /\ StartsAt(rw.text, Len(rw.text) - 1, RightArrows)
                    /\ rw.count = 1
               ELSE rw.text = rw.input /\ rw.count = 0

\* a row whose first and third slots have an alias has been rebuilt
C18_Witness ==
    /\ rw.stage = "once" /\ rw.family = "nav"
    /\ rw.input = SlotRow([k \in 1..5 |-> IF k \in {1, 3} THEN <<"x">> ELSE NoAlias], 4)
    /\ rw.text # rw.input
    /\ Len(LinkBodies(rw.text)) = 4
    /\ LinkBodies(rw.text)[2] = DAILY_NOTES_DIR \o <<"/", "b">>

(***************************************************************************)
(* Several tools run one after the other over one note, with backups.      *)
(***************************************************************************)
\* notes that more than one tool rewrites
RunNotes ==
    { <<"[","[","a","/","b","]","]"," ","x","#","d","o","n","e">>,
      <<"[","[","a","/","b","]","]"," ","#","a">>,
      <<"x","#","d","o","n","e"," ","#","a">>,
      <<"#","a"," ","#","a","/","b">>,
      BrokenRow(<<"a">>, <<"d">>) \o <<NL>> \o <<"x","#","d","o","n","e"," ","#","a">>,
      <<"[","[","a","/","b","]","]"," ","x","#","d","o","n","e"," ","#","a","/","b">> }

\* the rules: a tool, and for the tag converter the tag it converts
Rules == {<<"links">>, <<"nav">>, <<"done">>, <<"tags", TagA>>, <<"tags", TagAB>>}

\* real runs with backups
BackupOptions(family) ==
    CASE family = "tags" ->
             {o \in OptionsOf("tags") : ~o.dry_run /\ o.create_backup /\ ~o.convert_yaml}
      [] family = "links" ->
             {o \in OptionsOf("links") :
                  /\ ~o.dry_run /\ o.create_backup /\ o.max_size_kb = 1000
                  /\ o.start_at = 0 /\ o.max_files = NoLimit}
      [] family \in {"nav", "done"} ->
             {o \in OptionsOf(family) : ~o.dry_run /\ o.create_backup}

InitRuns ==
    /\ \E text \in RunNotes :
           rw = [stage |-> "runs", note |-> [f \in {1} |-> text], bak |-> EmptyMap,
                 ran |-> {}, written |-> {}, log |-> {}]
    /\ tool = "links"
    /\ opts \in BackupOptions("links")
    /\ fs = [f \in Files |-> <<>>]
    /\ orig = fs
    /\ bak = EmptyMap
    /\ todo = <<>>
    /\ file_count = 0
    /\ modified_files = <<>>
    /\ total = 0
    /\ files_skipped = <<>>
    /\ files_error = <<>>
    /\ pc = "done"
    /\ summary = <<>>
    /\ outcome = [f \in Files |-> "pending"]

\* the run of a rule left res: the note, the backups, the backup this run
\* wrote (its path and the rule that wrote it) and what the run did
Ran(res, rule, suffix, o) ==
    [rw EXCEPT !.note = res.fs, !.bak = res.bak, !.ran = @ \cup {rule},
               !.written = IF res.what = "rewritten"
                           THEN @ \cup {[rule |-> rule, path |-> <<1, suffix>>]}
                           ELSE @,
               !.log = @ \cup {[rule |-> rule, o |-> o, before |-> rw.note[1],
                                after |-> res.fs[1], what |-> res.what,
                                bak |-> res.bak]}]

RunSimplify ==
    /\ rw.stage = "runs" /\ <<"links">> \notin rw.ran
    /\ \E o \in BackupOptions("links") :
           rw' = Ran(SimplifyHandler(rw.note, rw.bak, 1, o, "none"), <<"links">>,
                     BackupSuffix("links", o), o)
    /\ UNCHANGED Batch

RunFixNav ==
    /\ rw.stage = "runs" /\ <<"nav">> \notin rw.ran
    /\ \E o \in BackupOptions("nav") :
           rw' = Ran(FixNavHandler(rw.note, rw.bak, 1, o, "none"), <<"nav">>,
                     BackupSuffix("nav", o), o)
    /\ UNCHANGED Batch

RunCleanDone ==
    /\ rw.stage = "runs" /\ <<"done">> \notin rw.ran
    /\ \E o \in BackupOptions("done") :
           rw' = Ran(CleanDoneHandler(rw.note, rw.bak, 1, o, "none", "none"),
                     <<"done">>, BackupSuffix("done", o), o)
    /\ UNCHANGED Batch

RunConvertTag ==
    /\ rw.stage = "runs"
    /\ \E o \in BackupOptions("tags") :
           /\ <<"tags", o.tag>> \notin rw.ran
           /\ rw' = Ran(ConvertTagHandler(rw.note, rw.bak, 1, o, "none"),
                        <<"tags", o.tag>>, BackupSuffix("tags", o), o)
    /\ UNCHANGED Batch

NextRuns == RunSimplify \/ RunFixNav \/ RunCleanDone \/ RunConvertTag

SpecRuns == InitRuns /\ [][NextRuns]_vars

\* C19: the backups that different tools or rules take of one note go to
\* different paths, so that none overwrites the backup of another.
C19_BackupsOfDifferentRulesAreApart ==
    rw.stage = "runs" =>
        \A v, w \in rw.written : v.rule # w.rule => v.path # w.path

\* C20: for every tag the converter accepts, nested tags included, the
\* backup path is the note's path plus a suffix in the note's own directory,
\* and a real run with backups over a note that holds the tag writes the
\* backup with the content read and then rewrites the note.
C20_TagBackupIsWrittenBesideTheNote ==
    rw.stage = "runs" =>
        \A e \in rw.log :
            (e.rule[1] = "tags" /\ TagCount(e.before, 1, e.o.tag, e.o.exact_match) > 0)
                => /\ PathUsable(BackupSuffix("tags", e.o))
                   /\ <<1, BackupSuffix("tags", e.o)>> \in DOMAIN e.bak
                   /\ e.bak[<<1, BackupSuffix("tags", e.o)>>] = e.before
                   /\ e.what = "rewritten"
                   /\ e.after # e.before

(* ---- the duplicate finder's walk over the vault ---- *)
\* the most directories below the vault root
MaxDirs == 3

DirNames == {"d", ".git"}

\* every directory holds x.txt; those of the set md hold n.md too
MdName == "n.md"

OtherName == "x.txt"

\* the vaults of at most n directories below the root <<>>: each is the set
\* of its directories, and holds the parent of every directory it holds
RECURSIVE TreesOf(_)
TreesOf(n) ==
    IF n = 0 THEN {{<<>>}}
    ELSE TreesOf(n - 1) \cup
         {t \cup {Append(d, name)} : <<t, d, name>> \in
              {x \in TreesOf(n - 1) \X (UNION TreesOf(n - 1)) \X DirNames : x[2] \in x[1]}}

Trees == TreesOf(MaxDirs)

\* the batch variables of a run that handles no note
Idle(t, o) ==
    /\ tool = t
    /\ opts = o
    /\ fs = [f \in Files |-> <<>>]
    /\ orig = fs
    /\ bak = EmptyMap
    /\ todo = <<>>
    /\ file_count = 0
    /\ modified_files = <<>>
    /\ total = 0
    /\ files_skipped = <<>>
    /\ files_error = <<>>
    /\ pc = "done"
    /\ summary = <<>>
    /\ outcome = [f \in Files |-> "pending"]

InitWalk ==
    /\ \E tree \in Trees : \E md \in SUBSET tree :
       \E ignored_dirs \in {{}, {".git"}, {"d"}} :
           rw = [stage |-> "walk", tree |-> tree, md |-> md,
                 ignored_dirs |-> ignored_dirs, stack |-> <<<<>>>>,
                 visited |-> {}, file_paths |-> <<>>, duplicates |-> {}]
    /\ Idle("duplicates", [dry_run |-> TRUE, create_backup |-> FALSE])

\* the names of the directories in root
SubDirs(tree, root) ==
    {d[Len(d)] : d \in {e \in tree : Len(e) = Len(root) + 1
                                     /\ SubSeq(e, 1, Len(root)) = root}}

\* the names of the files in root
FilesIn(md, root) == IF root \in md THEN {MdName, OtherName} ELSE {OtherName}

\* the walk keeps every directory
KeptDirsUnfiltered(dirs, ignored_dirs) == dirs

\* dirs[:] = [d for d in dirs if d not in ignored_dirs]
KeptDirs(dirs, ignored_dirs) == {d \in dirs : d \notin ignored_dirs}

\* f.endswith(".md")
EndsWithMd(f) == f \in {MdName}

\* the orders a directory listing can come in
Orders(names) ==
    {q \in [1..Cardinality(names) -> names] : \A n \in names : \E i \in DOMAIN q : q[i] = n}

Walked(root, below, md_files) ==
    [rw EXCEPT !.stack = [i \in DOMAIN below |-> Append(root, below[i])] \o Tail(@),
               !.visited = @ \cup {root},
               !.file_paths = @ \o [i \in DOMAIN md_files |-> Append(root, md_files[i])]]

\* one turn of the loop over os.walk: the directory at hand, its
\* subdirectories pruned, its markdown files recorded
WalkDirectory ==
    /\ rw.stage = "walk"
    /\ rw.stack # <<>>
    /\ \E below \in Orders(KeptDirs(SubDirs(rw.tree, Head(rw.stack)), rw.ignored_dirs)) :
       \E md_files \in Orders({f \in FilesIn(rw.md, Head(rw.stack)) : EndsWithMd(f)}) :
           rw' = Walked(Head(rw.stack), below, md_files)
    /\ UNCHANGED Batch

\* the names recorded more than once
Duplicates(file_paths) ==
    {file_paths[i][Len(file_paths[i])] : i \in
        {i \in DOMAIN file_paths :
             \E j \in DOMAIN file_paths :
                 j # i /\ file_paths[j][Len(file_paths[j])] = file_paths[i][Len(file_paths[i])]}}

\* the walk is over: only the duplicates are kept
KeepDuplicates ==
    /\ rw.stage = "walk"
    /\ rw.stack = <<>>
    /\ rw' = [rw EXCEPT !.stage = "found", !.duplicates = Duplicates(rw.file_paths)]
    /\ UNCHANGED Batch

NextWalk == WalkDirectory \/ KeepDuplicates

SpecWalk == InitWalk /\ [][NextWalk]_vars

\* a directory of the vault lies in or below a directory with an excluded name
UnderExcluded(d, ignored_dirs) == \E i \in DOMAIN d : d[i] \in ignored_dirs

\* C21: the walk never enters a directory with an excluded name, never
\* records a file below such a directory at any depth, and when it is over
\* it has recorded every .md file outside these directories, each once.
C21_WalkSkipsExcludedDirectories ==
    rw.stage \in {"walk", "found"} =>
        /\ \A d \in rw.visited : ~UnderExcluded(d, rw.ignored_dirs)
        /\ \A i \in DOMAIN rw.file_paths :
               ~UnderExcluded(SubSeq(rw.file_paths[i], 1, Len(rw.file_paths[i]) - 1),
                              rw.ignored_dirs)
        /\ rw.stage = "found" =>
               /\ {rw.file_paths[i] : i \in DOMAIN rw.file_paths}
                      = {Append(d, MdName) :
                             d \in {e \in rw.md : ~UnderExcluded(e, rw.ignored_dirs)}}
               /\ Cardinality({rw.file_paths[i] : i \in DOMAIN rw.file_paths})
                      = Len(rw.file_paths)

\* a finished walk of a vault with a note two levels inside an excluded
\* directory and a note outside it
C21_Witness ==
    /\ rw.stage = "found"
    /\ rw.ignored_dirs = {".git"}
    /\ <<".git", "d">> \in rw.md
    /\ <<"d">> \in rw.md
    /\ Len(rw.file_paths) > 0

(* ---- the metadata tool's scan of the vault ---- *)
\* "How to write YAML in Obsidian.md"
RulesName == "How to write YAML in Obsidian.md"

\* the script's directory below the vault root, and a directory beside it
\* whose path starts with the same characters
ScriptDir == <<"99 - Meta", "99 - Scripts">>

ScriptDirTwin == <<"99 - Meta", "99 - Scripts2">>

\* the files a vault can hold: <<directory, name>>
VaultFiles ==
    { <<<<>>, RulesName>>, <<<<>>, "n.md">>, <<<<>>, "N.MD">>, <<<<>>, "x.txt">>,
      <<<<"sub">>, RulesName>>, <<ScriptDir, "s.md">>, <<ScriptDirTwin, "t.md">> }

\* os.walk lists the root first, then the directories below it
WalkOrder ==
    << <<<<>>, "N.MD">>, <<<<>>, RulesName>>, <<<<>>, "n.md">>, <<<<>>, "x.txt">>,
       <<ScriptDir, "s.md">>, <<ScriptDirTwin, "t.md">>, <<<<"sub">>, RulesName>> >>

\* every note of the scan holds this text
ScanNote == <<"-","-","-",NL,"k",NL,"-","-","-",NL,"b">>

RECURSIVE Listing(_, _)
Listing(present, i) ==
    IF i > Len(WalkOrder) THEN <<>>
    ELSE (IF WalkOrder[i] \in present THEN <<WalkOrder[i]>> ELSE <<>>)
         \o Listing(present, i + 1)

InitScan ==
    /\ \E present \in SUBSET VaultFiles :
           rw = [stage |-> "scan", fs |-> [p \in present |-> ScanNote],
                 orig |-> [p \in present |-> ScanNote], bak |-> EmptyMap,
                 files |-> Listing(present, 1), asked |-> {}, seen |-> {},
                 files_modified |-> <<>>, files_skipped |-> <<>>,
                 files_error |-> <<>>, summary |-> <<>>]
    /\ Idle("yaml", [dry_run |-> FALSE, create_backup |-> TRUE])

\* os.path.abspath(subdir).startswith(script_dir), on the path as a string
StartsWithScriptDir(subdir) ==
    /\ Len(subdir) >= Len(ScriptDir)
    /\ subdir[1] = ScriptDir[1]
    /\ subdir[2] \in {ScriptDir[2], ScriptDirTwin[2]}

\* filename.lower().endswith(".md")
LowerEndsWithMd(filename) == filename \in {RulesName, "n.md", "N.MD", "s.md", "t.md"}

\* a scan that never recognises the rules file
IsRulesFileNever(filepath) == FALSE

\* abs_filepath == rules_file_abs, the rules file being looked for in the
\* root of the scan
IsRulesFile(filepath) == filepath = <<<<>>, RulesName>>

Listed(list, which, p) == IF list = which THEN <<p>> ELSE <<>>

Scanned(p, res, asked) ==
    [rw EXCEPT !.files = Tail(@), !.fs = res.fs, !.bak = res.bak,
               !.seen = @ \cup {p},
               !.asked = IF asked THEN @ \cup {p} ELSE @,
               !.files_modified = @ \o Listed(res.list, "modified", p),
               !.files_skipped = @ \o Listed(res.list, "skipped", p),
               !.files_error = @ \o Listed(res.list, "error", p)]

\* the next file of the walk is passed over
SkipFile ==
    /\ rw.stage = "scan"
    /\ rw.files # <<>>
    /\ \/ StartsWithScriptDir(Head(rw.files)[1])
       \/ ~LowerEndsWithMd(Head(rw.files)[2])
       \/ IsRulesFile(Head(rw.files))
    /\ rw' = [rw EXCEPT !.files = Tail(@)]
    /\ UNCHANGED Batch

\* the next file of the walk is processed as a note
ScanFile ==
    /\ rw.stage = "scan"
    /\ rw.files # <<>>
    /\ ~StartsWithScriptDir(Head(rw.files)[1])
    /\ LowerEndsWithMd(Head(rw.files)[2])
    /\ ~IsRulesFile(Head(rw.files))
    /\ \E fault \in Faults, gen \in GeneratedYamls :
           rw' = Scanned(Head(rw.files),
                         AddYamlHandler(rw.fs, rw.bak, Head(rw.files), gen, fault),
                         fault \notin {"read", "backup_open", "backup_write"})
    /\ UNCHANGED Batch

\* the "--- Update Complete ---" report of the scan
ScanSummary ==
    /\ rw.stage = "scan"
    /\ rw.files = <<>>
    /\ rw' = [rw EXCEPT !.stage = "scanned",
                        !.summary = [files_modified |-> rw.files_modified,
                                     files_skipped |-> rw.files_skipped,
                                     files_error |-> rw.files_error]]
    /\ UNCHANGED Batch

NextScan == SkipFile \/ ScanFile \/ ScanSummary

SpecScan == InitScan /\ [][NextScan]_vars

\* C22: the rules document at the vault root is never handled as a note: it
\* is not backed up, not sent to the generator, not rewritten, and it is in
\* none of the lists of modified, skipped and errored files.
C22_RulesDocumentIsNotANote ==
    (rw.stage \in {"scan", "scanned"} /\ <<<<>>, RulesName>> \in DOMAIN rw.fs) =>
        LET rules == <<<<>>, RulesName>>
        IN  /\ <<rules, YamlSuffix>> \notin DOMAIN rw.bak
            /\ rules \notin rw.asked
            /\ rules \notin rw.seen
            /\ rw.fs[rules] = rw.orig[rules]
            /\ rules \notin SeqRange(rw.files_modified) \cup SeqRange(rw.files_skipped)
                            \cup SeqRange(rw.files_error)

\* a finished scan of a vault that holds the rules document and rewrote a
\* note beside it
C22_Witness ==
    /\ rw.stage = "scanned"
    /\ <<<<>>, RulesName>> \in DOMAIN rw.fs
    /\ <<<<>>, "n.md">> \in SeqRange(rw.files_modified)

(* ---- tag_inventory.py: the inventory of the tags of the vault ---- *)
\* the class of TAG_PATTERN  #[a-zA-Z0-9_/.-]+
InventoryChars == AsciiWordChars \cup {"/", ".", "-"}

\* the positions at which TAG_PATTERN matches
InventoryStarts(t) ==
    {i \in 1..(Len(t) - 1) : t[i] = "#" /\ t[i + 1] \in InventoryChars}

\* re.findall(TAG_PATTERN, content) from position i: the matched texts
RECURSIVE FindAllTags(_, _, _)
FindAllTags(t, starts, i) ==
    IF NextIn(starts, i) = 0 THEN <<>>
    ELSE <<SubSeq(t, NextIn(starts, i), RunEnd(t, NextIn(starts, i) + 1, InventoryChars) - 1)>>
         \o FindAllTags(t, starts, RunEnd(t, NextIn(starts, i) + 1, InventoryChars))

\* scan_file_for_tags: the tags of the file, none when it cannot be read
ScanFileForTags(content, unreadable) ==
    IF unreadable THEN <<>> ELSE FindAllTags(content, InventoryStarts(content), 1)

\* a filter that drops nothing
FileTagsUnfiltered(file_tags, exclude_done) == file_tags

\* [tag for tag in file_tags if not tag.startswith("#done")] when exclude_done
FileTags(file_tags, exclude_done) ==
    IF exclude_done
    THEN SelectSeq(file_tags, LAMBDA tag : ~StartsAt(tag, 1, DoneLit))
    ELSE file_tags

\* tag_counter.update(file_tags)
RECURSIVE CounterUpdate(_, _)
CounterUpdate(counter, file_tags) ==
    IF file_tags = <<>> THEN counter
    ELSE CounterUpdate(
             IF Head(file_tags) \in DOMAIN counter
             THEN [counter EXCEPT ![Head(file_tags)] = @ + 1]
             ELSE (Head(file_tags) :> 1) @@ counter,
             Tail(file_tags))

\* the characters of the tags in the order of their code points
AsciiOrder ==
    <<"#", "-", ".", "/", "0","1","2","3","4","5","6","7","8","9",
      "A","B","C","D","E","F","G","H","I","J","K","L","M","N","O","P","Q","R",
      "S","T","U","V","W","X","Y","Z", "_",
      "a","b","c","d","e","f","g","h","i","j","k","l","m","n","o","p","q","r",
      "s","t","u","v","w","x","y","z">>

Ord(c) == CHOOSE i \in DOMAIN AsciiOrder : AsciiOrder[i] = c

\* a < b for two str
RECURSIVE StrLess(_, _)
StrLess(a, b) ==
    IF b = <<>> THEN FALSE
    ELSE IF a = <<>> THEN TRUE
    ELSE IF Head(a) # Head(b) THEN Ord(Head(a)) < Ord(Head(b))
    ELSE StrLess(Tail(a), Tail(b))

\* the key of a sort that looks at the tag alone
KeyLessByTag(x, y) == StrLess(x[1], y[1])

\* the key (-count, tag) of an item <<tag, count>> is smaller
KeyLess(x, y) == x[2] > y[2] \/ (x[2] = y[2] /\ StrLess(x[1], y[1]))

\* sorted(items, key=lambda x: (-x[1], x[0]))
RECURSIVE SortedItems(_)
SortedItems(items) ==
    IF items = {} THEN <<>>
    ELSE <<CHOOSE x \in items : \A y \in items \ {x} : KeyLess(x, y)>>
         \o SortedItems(items \ {CHOOSE x \in items : \A y \in items \ {x} : KeyLess(x, y)})

\* sorted(tags)
RECURSIVE SortedTexts(_)
SortedTexts(texts) ==
    IF texts = {} THEN <<>>
    ELSE <<CHOOSE x \in texts : \A y \in texts \ {x} : StrLess(x, y)>>
         \o SortedTexts(texts \ {CHOOSE x \in texts : \A y \in texts \ {x} : StrLess(x, y)})

\* filtered_tags and sorted_tags of generate_tag_report
SortedTags(tag_counter, min_count) ==
    SortedItems({<<tag, tag_counter[tag]>> :
                     tag \in {g \in DOMAIN tag_counter : tag_counter[g] >= min_count}})

\* str(n) for a count below 100
DigitOf(n) == <<"0","1","2","3","4","5","6","7","8","9">>[n + 1]

Str(n) == IF n < 10 THEN <<DigitOf(n)>> ELSE <<DigitOf(n \div 10), DigitOf(n % 10)>>

\* tag.split("/")[0]
RootOf(tag) == SubSeq(tag, 1, RunEndNot(tag, 1, {"/"}) - 1)

\* one section of "## Tag Hierarchies"; the words of the report that hold
\* no "#" are written as one element each
HierarchySection(tag_counter, root) ==
    <<"#", "#", "#", " ">> \o root \o <<NL, NL>>
    \o (IF {g \in DOMAIN tag_counter : RootOf(g) = root /\ g # root} # {}
        THEN <<"Nested tags:", NL>>
             \o Flatten([i \in 1..Cardinality({g \in DOMAIN tag_counter :
                                                   RootOf(g) = root /\ g # root}) |->
                    <<"-", " ">>
                    \o SortedTexts({g \in DOMAIN tag_counter :
                                        RootOf(g) = root /\ g # root})[i]
                    \o <<" ", "(">>
                    \o Str(tag_counter[SortedTexts({g \in DOMAIN tag_counter :
                                                        RootOf(g) = root /\ g # root})[i]])
                    \o <<" ", "occurrences)", NL>>])
        ELSE <<"No nested tags. Root occurrence count:", " ">>
             \o Str(tag_counter[root]) \o <<NL>>)
    \o <<NL>>

\* the character that opens and closes a code span
BACKTICK == "backtick"

\* one row of the tag table
TableRow(item) ==
    <<"|", " ", BACKTICK>> \o item[1] \o <<BACKTICK, " ", "|", " ">> \o Str(item[2])
    \o <<" ", "|", " ", "[", "[">>
    \o Replace(WithoutHash(item[1]), <<"/">>, <<" ", "-", " ">>)
    \o <<"]", "]", " ", "|", " ", "To Convert", " ", "|", NL>>

\* generate_tag_report: the text of the report
GenerateTagReport(tag_counter, files_scanned, min_count) ==
    <<"#", " ", "Tag to Wikilink Conversion Plan", NL, NL, "Summary", NL, NL>>
    \o <<"#", "#", " ", "Tag Hierarchies", NL, NL>>
    \o Flatten([i \in 1..Cardinality({RootOf(g) : g \in DOMAIN tag_counter}) |->
           HierarchySection(tag_counter,
                            SortedTexts({RootOf(g) : g \in DOMAIN tag_counter})[i])])
    \o <<"#", "#", " ", "Complete Tag List (sorted by frequency)", NL, NL,
         "| Tag | Occurrences | Suggested Wikilink | Status |", NL,
         "|-----|-------------|-------------------|--------|", NL>>
    \o Flatten([i \in 1..Len(SortedTags(tag_counter, min_count)) |->
           TableRow(SortedTags(tag_counter, min_count)[i])])
    \o <<NL, "#", "#", " ", "Conversion Instructions", NL, NL>>

\* the notes of the inventory
InventoryNotes ==
    { <<"#","a"," ","#","b"," ","#","a">>,
      <<"#","b"," ","#","a","/","b">>,
      <<"x","#","d","o","n","e"," ","#","a">>,
      <<"#","d","o","n","e","x"," ","#","b","-","c">>,
      <<"y"," ","#"," ","#",".">> }

\* "Tag Conversion Plan.md", the report document, among md_files: the file
\* after the notes
ReportFile == NumFiles + 1

InitInventory ==
    /\ \E notes \in [Files -> InventoryNotes], exclude_done \in BOOLEAN,
          min_count \in {1, 2}, output_in_vault \in BOOLEAN :
           rw = [stage |-> "scan", run |-> 1, notes |-> notes,
                 exclude_done |-> exclude_done, min_count |-> min_count,
                 output_in_vault |-> output_in_vault,
                 md_files |-> Range(1, NumFiles), file_count |-> NumFiles,
                 tag_counter |-> EmptyMap, found |-> <<>>, unreadable |-> FALSE,
                 sorted_tags |-> <<>>, report |-> <<>>, saved |-> FALSE,
                 first |-> EmptyMap]
    /\ Idle("inventory", [dry_run |-> TRUE, create_backup |-> FALSE])

Counted(file_tags, unreadable) ==
    [rw EXCEPT !.md_files = Tail(@),
               !.found = Append(@, file_tags),
               !.unreadable = @ \/ unreadable,
               !.tag_counter = CounterUpdate(@, FileTags(file_tags, rw.exclude_done))]

\* one turn of the loop of inventory_tags
CountFileTags ==
    /\ rw.stage = "scan"
    /\ rw.md_files # <<>>
    /\ \E unreadable \in BOOLEAN :
           rw' = Counted(ScanFileForTags(IF Head(rw.md_files) = ReportFile
                                         THEN rw.report
                                         ELSE rw.notes[Head(rw.md_files)],
                                         unreadable),
                         unreadable)
    /\ UNCHANGED Batch

\* generate_tag_report and save_report, which can fail
SaveTagReport ==
    /\ rw.stage = "scan"
    /\ rw.md_files = <<>>
    /\ \E written \in BOOLEAN :
           rw' = [rw EXCEPT !.stage = "reported",
                            !.sorted_tags = SortedTags(rw.tag_counter, rw.min_count),
                            !.report = IF written
                                       THEN GenerateTagReport(rw.tag_counter, rw.file_count,
                                                              rw.min_count)
                                       ELSE @,
                            !.saved = @ \/ written]
    /\ UNCHANGED Batch

\* glob.glob(f"{VAULT_PATH}/**/*.md", recursive=True)
MdFiles(saved, output_in_vault) ==
    Range(1, NumFiles) \o (IF saved /\ output_in_vault THEN <<ReportFile>> ELSE <<>>)

\* the inventory is run again over the same notes
InventoryAgain ==
    /\ rw.stage = "reported"
    /\ rw.run = 1
    /\ rw' = [rw EXCEPT !.stage = "scan", !.run = 2,
                        !.md_files = MdFiles(rw.saved, rw.output_in_vault),
                        !.file_count = Len(MdFiles(rw.saved, rw.output_in_vault)),
                        !.first = rw.tag_counter,
                        !.tag_counter = EmptyMap, !.found = <<>>]
    /\ UNCHANGED Batch

NextInventory == CountFileTags \/ SaveTagReport \/ InventoryAgain

SpecInventory == InitInventory /\ [][NextInventory]_vars

\* the number of times the tag was found in the files scanned
TimesFound(tag) ==
    Cardinality({i \in DOMAIN Flatten(rw.found) : Flatten(rw.found)[i] = tag})

\* the table lists exactly the tags of the set, each once, by descending
\* count and, among equal counts, by ascending text
TableIs(tags) ==
    /\ {rw.sorted_tags[i][1] : i \in DOMAIN rw.sorted_tags} = tags
    /\ Len(rw.sorted_tags) = Cardinality(tags)
    /\ \A i \in DOMAIN rw.sorted_tags : rw.sorted_tags[i][2] = TimesFound(rw.sorted_tags[i][1])
    /\ \A i, j \in DOMAIN rw.sorted_tags :
           i < j => \/ rw.sorted_tags[i][2] > rw.sorted_tags[j][2]
                    \/ /\ rw.sorted_tags[i][2] = rw.sorted_tags[j][2]
                       /\ StrLess(rw.sorted_tags[i][1], rw.sorted_tags[j][1])

\* C23 as stated: the tag table lists exactly the distinct tags found at
\* least min_count times in the files scanned, each once, by descending
\* count and, among equal counts, by ascending tag text.
C23_TableOfAllTags ==
    rw.stage = "reported" =>
        TableIs({tag \in SeqRange(Flatten(rw.found)) : TimesFound(tag) >= rw.min_count})

\* C23 amended: the tag table lists exactly the distinct tags found at least
\* min_count times in the files scanned, leaving out the tags that start
\* with #done when exclude_done is set, each once, by descending count and,
\* among equal counts, by ascending tag text.
C23_TableOfCountedTags ==
    rw.stage = "reported" =>
        TableIs({tag \in SeqRange(Flatten(rw.found)) :
                     /\ TimesFound(tag) >= rw.min_count
                     /\ ~(rw.exclude_done /\ StartsAt(tag, 1, DoneLit))})

\* a table of three tags, two of them with the same count
C23_Witness ==
    /\ rw.stage = "reported"
    /\ Len(rw.sorted_tags) >= 3
    /\ \E i \in DOMAIN rw.sorted_tags :
           i > 1 /\ rw.sorted_tags[i][2] = rw.sorted_tags[i - 1][2]
    /\ rw.sorted_tags[1][2] > rw.sorted_tags[Len(rw.sorted_tags)][2]

(* ---- remove_backup_files.py: the cleaner of .bak files ---- *)
DotBak == <<".", "b", "a", "k">>

\* the paths a vault can hold
CleanPaths ==
    { <<"a">>, <<"a">> \o DotBak, <<"a">> \o DotBak \o DotBak,
      <<"b">> \o DotBak, <<"c">>, <<"c">> \o DotBak }

\* glob.glob(f"{vault_path}/**/*.bak", recursive=True)
BackupFiles(paths) ==
    {p \in paths : Len(p) > Len(DotBak) /\ StartsAt(p, Len(p) - Len(DotBak) + 1, DotBak)}

\* a cleaner that looks for the backup itself
OriginalPathSame(backup_path) == backup_path

\* backup_path[:-4]
OriginalPath(backup_path) == SubSeq(backup_path, 1, Len(backup_path) - 4)

InitClean ==
    /\ \E paths \in SUBSET CleanPaths, dry_run \in BOOLEAN :
           rw = [stage |-> "clean", dry_run |-> dry_run, paths |-> paths,
                 start |-> paths, backup_files |-> BackupFiles(paths),
                 total_backups |-> Cardinality(BackupFiles(paths)),
                 deleted_files |-> <<>>, kept_files |-> <<>>, log |-> {},
                 summary |-> <<>>]
    /\ Idle("clean", [dry_run |-> TRUE, create_backup |-> FALSE])

Cleaned(backup_path, exists, fails) ==
    [rw EXCEPT !.backup_files = @ \ {backup_path},
               !.paths = IF exists /\ ~rw.dry_run /\ ~fails
                         THEN @ \ {backup_path} ELSE @,
               !.deleted_files = IF exists /\ ~(~rw.dry_run /\ fails)
                                 THEN Append(@, backup_path) ELSE @,
               !.kept_files = IF ~exists THEN Append(@, backup_path) ELSE @,
               !.log = @ \cup {[backup_path |-> backup_path, before |-> rw.paths,
                                fails |-> exists /\ ~rw.dry_run /\ fails]}]

\* one turn of the loop over backup_files, which glob lists in any order;
\* os.remove can raise
CleanBackup ==
    /\ rw.stage = "clean"
    /\ \E backup_path \in rw.backup_files, fails \in BOOLEAN :
           rw' = Cleaned(backup_path, OriginalPath(backup_path) \in rw.paths, fails)
    /\ UNCHANGED Batch

\* the summary of the cleaner
CleanSummary ==
    /\ rw.stage = "clean"
    /\ rw.backup_files = {}
    /\ rw' = [rw EXCEPT !.stage = "cleaned",
                        !.summary = [total_backups |-> rw.total_backups,
                                     deleted |-> Len(rw.deleted_files),
                                     kept |-> Len(rw.kept_files)]]
    /\ UNCHANGED Batch

NextClean == CleanBackup \/ CleanSummary

SpecClean == InitClean /\ [][NextClean]_vars

\* the path without its last four characters was a file when the backup
\* was handled
HadOriginal(e) == SubSeq(e.backup_path, 1, Len(e.backup_path) - Len(DotBak)) \in e.before

RECURSIVE DoneParensSpans(_, _)
DoneParensSpans(t, i) ==
    IF NextIn({j \in 1..Len(t) : DoneParensEnd(t, j) # 0}, i) = 0 THEN <<>>
    ELSE <<<<NextIn({j \in 1..Len(t) : DoneParensEnd(t, j) # 0}, i),
             DoneParensEnd(t, NextIn({j \in 1..Len(t) : DoneParensEnd(t, j) # 0}, i))>>>>
         \o DoneParensSpans(t,
                DoneParensEnd(t, NextIn({j \in 1..Len(t) : DoneParensEnd(t, j) # 0}, i)))

\* the spans of the matches that re.findall(DONE_STANDALONE_PATTERN, t) returns
RECURSIVE DoneStandaloneSpans(_, _)
DoneStandaloneSpans(t, i) ==
    IF NextIn({j \in 1..Len(t) : DoneStandaloneEnd(t, j) # 0}, i) = 0 THEN <<>>
    ELSE <<<<NextIn({j \in 1..Len(t) : DoneStandaloneEnd(t, j) # 0}, i),
             DoneStandaloneEnd(t, NextIn({j \in 1..Len(t) : DoneStandaloneEnd(t, j) # 0}, i))>>>>
         \o DoneStandaloneSpans(t,
                DoneStandaloneEnd(t, NextIn({j \in 1..Len(t) : DoneStandaloneEnd(t, j) # 0}, i)))

\* the spans follow each other without overlap
SpansInOrder(spans) ==
    /\ \A k \in DOMAIN spans : spans[k][1] < spans[k][2]
    /\ \A k \in 1..(Len(spans) - 1) : spans[k][2] <= spans[k + 1][1]

\* the text without the characters of the spans
RECURSIVE WithoutSpans(_, _, _)
WithoutSpans(t, spans, i) ==
    IF i > Len(t) THEN <<>>
    ELSE (IF \E sp \in spans : sp[1] <= i /\ i < sp[2] THEN <<>> ELSE <<t[i]>>)
         \o WithoutSpans(t, spans, i + 1)

\* C25: the matches a scan returns follow each other without overlap, in
\* strictly increasing start offset, and they are matches over the original
\* text: what the #done cleaner removes from a note are spans that its scans
\* matched in the text read, never text that an earlier removal put together.
C25_MatchesAreOverTheOriginalText ==
    (rw.stage = "once" /\ rw.family = "done") =>
        /\ SpansInOrder(DoneParensSpans(rw.input, 1))
        /\ SpansInOrder(DoneStandaloneSpans(rw.input, 1))
        /\ \E spans \in SUBSET (SeqRange(DoneParensSpans(rw.input, 1))
                                \cup SeqRange(DoneStandaloneSpans(rw.input, 1))) :
               rw.text = WithoutSpans(rw.input, spans, 1)

(* ---- the tags list of the front matter ---- *)
\* the lines of the front matter of a note
YamlLinesOf(t) == SplitLines(SubSeq(t, 1, YamlLen(t)))

\* the lines that are the list entry "- tag"
EntriesOf(lines, tag) ==
    {i \in DOMAIN lines :
         /\ StartsAt(Strip(lines[i]), 1, <<"-">>)
         /\ Strip(Tail(Strip(lines[i]))) = tag}

\* the lines that hold a related: key
RelatedKeysOf(lines) == {i \in DOMAIN lines : StartsAt(Strip(lines[i]), 1, RelatedKey)}

\* C26: with convert_yaml, when entries of the tag leave the tags list, the
\* rewritten front matter holds a "[[wikilink]]" entry below a related: key,
\* wherever the related: key of the note stands, and it holds at most one
\* related: key.
C26_RemovedTagBecomesRelatedEntry ==
    (rw.stage = "once" /\ rw.family = "tags" /\ rw.o.convert_yaml /\ YamlLen(rw.input) > 0) =>
        /\ Cardinality(EntriesOf(YamlLinesOf(rw.text), rw.o.tag))
               < Cardinality(EntriesOf(YamlLinesOf(rw.input), rw.o.tag))
           => \E i \in RelatedKeysOf(YamlLinesOf(rw.text)) :
              \E j \in DOMAIN YamlLinesOf(rw.text) :
                  i < j /\ YamlLinesOf(rw.text)[j] = RelatedEntry(rw.o.wikilink)
        /\ Cardinality(RelatedKeysOf(YamlLinesOf(rw.text))) <= 1

(* ---- a dry run of the tag converter, then the real run ---- *)
\* the arguments of the two runs but for dry_run
TwinOptions == {o \in OptionsOf("tags") : ~o.dry_run}

InitTwin ==
    /\ \E notes \in [Files -> TagNotes \cup TagExamples], o \in TwinOptions :
           rw = [stage |-> "dry", notes |-> notes, start |-> notes, bak |-> EmptyMap,
                 o |-> o, todo |-> Range(1, NumFiles),
                 dry_modified |-> <<>>, real_modified |-> <<>>]
    /\ Idle("tags", rw.o)

\* the loop body of process_vault: the note at hand was handled with res
Processed(res, list) ==
    [rw EXCEPT !.notes = res.fs, !.bak = res.bak, !.todo = Tail(@),
               ![list] = IF res.was_modified
                         THEN Append(@, <<Head(rw.todo), res.count>>) ELSE @]

\* one turn of the loop of process_vault in the dry run
DryRunFile ==
    /\ rw.stage = "dry"
    /\ rw.todo # <<>>
    /\ rw' = Processed(ConvertTagHandler(rw.notes, rw.bak, Head(rw.todo),
                                         [rw.o EXCEPT !.dry_run = TRUE], "none"),
                       "dry_modified")
    /\ UNCHANGED Batch

\* the dry run is over and the tool is started again without --dry-run
StartRealRun ==
    /\ rw.stage = "dry"
    /\ rw.todo = <<>>
    /\ rw' = [rw EXCEPT !.stage = "real", !.todo = Range(1, NumFiles)]
    /\ UNCHANGED Batch

\* one turn of the loop of process_vault in the real run
RealRunFile ==
    /\ rw.stage = "real"
    /\ rw.todo # <<>>
    /\ rw' = Processed(ConvertTagHandler(rw.notes, rw.bak, Head(rw.todo), rw.o, "none"),
                       "real_modified")
    /\ UNCHANGED Batch

\* the real run is over
EndRealRun ==
    /\ rw.stage = "real"
    /\ rw.todo = <<>>
    /\ rw' = [rw EXCEPT !.stage = "both"]
    /\ UNCHANGED Batch

NextTwin == DryRunFile \/ StartRealRun \/ RealRunFile \/ EndRealRun

SpecTwin == InitTwin /\ [][NextTwin]_vars

\* C27: for the same vault and arguments, the files the dry run reports as
\* modified, with their counts, are the files the real run rewrites, and the
\* real run reports them with the same counts.
C27_DryRunReportsWhatTheRealRunDoes ==
    rw.stage = "both" =>
        /\ {rw.dry_modified[i][1] : i \in DOMAIN rw.dry_modified}
               = {f \in Files : rw.notes[f] # rw.start[f]}
        /\ rw.dry_modified = rw.real_modified

\* C28: a second run of the inventory over the same notes, every file being
\* readable, counts the tags as the first run did: the report document that
\* the first run wrote is not scanned and counted.
C28_SecondInventoryCountsTheSame ==
    (rw.stage = "reported" /\ rw.run = 2 /\ ~rw.unreadable) => rw.tag_counter = rw.first

\* C29: a tag token that continues the tag with a dash or a dot, such as
\* #a-x or #a.b for the tag #a, is a different tag: a note in which the tag
\* occurs only at the start of such tokens is left unchanged by the
\* conversion, in exact and in hierarchical mode.
C29_TagContinuedByDashOrDotIsKept ==
    (/\ rw.stage = "once" /\ rw.family = "tags"
     /\ Occurrences(rw.input, rw.o.tag) # {}
     /\ \A i \in Occurrences(rw.input, rw.o.tag) :
            /\ i + Len(rw.o.tag) <= Len(rw.input)
            /\ rw.input[i + Len(rw.o.tag)] \in {"-", "."})
        => rw.text = rw.input

(* ---- migrate_noteplan_calendar_notes.py: the calendar-note migration ---- *)
MdExt == <<".", "m", "d">>

IsDigits(n, a, b) == \A i \in a..b : n[i] \in Digits

\* PATTERNS["daily"]  ^(\d{8})\.md$
MatchDaily(n) == Len(n) = 11 /\ IsDigits(n, 1, 8) /\ StartsAt(n, 9, MdExt)

\* PATTERNS["monthly"]  ^(\d{4})[-.](\d{2})\.md$
MatchMonthly(n) ==
    /\ Len(n) = 10 /\ IsDigits(n, 1, 4) /\ n[5] \in {"-", "."}
    /\ IsDigits(n, 6, 7) /\ StartsAt(n, 8, MdExt)

\* the position of the letter of a weekly or quarterly name: after [-.]?
LetterAt(n) == IF Len(n) >= 5 /\ n[5] \in {"-", "."} THEN 6 ELSE 5

\* PATTERNS["weekly"]  ^(\d{4})[-.]?W(\d{1,2})\.md$
MatchWeekly(n) ==
    /\ Len(n) - LetterAt(n) - 3 \in {1, 2}
    /\ IsDigits(n, 1, 4) /\ n[LetterAt(n)] = "W"
    /\ IsDigits(n, LetterAt(n) + 1, Len(n) - 3) /\ StartsAt(n, Len(n) - 2, MdExt)

\* PATTERNS["quarterly"]  ^(\d{4})[-.]?Q([1-4])\.md$
MatchQuarterly(n) ==
    /\ Len(n) - LetterAt(n) - 3 = 1
    /\ IsDigits(n, 1, 4) /\ n[LetterAt(n)] = "Q"
    /\ n[LetterAt(n) + 1] \in {"1", "2", "3", "4"} /\ StartsAt(n, Len(n) - 2, MdExt)

\* PATTERNS["yearly"]  ^(\d{4})\.md$
MatchYearly(n) == Len(n) = 7 /\ IsDigits(n, 1, 4) /\ StartsAt(n, 5, MdExt)

NoteTypes == {"daily", "weekly", "monthly", "quarterly", "yearly"}

\* identify_file_type; "none" stands for None
IdentifyFileType(n) ==
    IF MatchDaily(n) THEN "daily"
    ELSE IF MatchMonthly(n) THEN "monthly"
    ELSE IF MatchWeekly(n) THEN "weekly"
    ELSE IF MatchQuarterly(n) THEN "quarterly"
    ELSE IF MatchYearly(n) THEN "yearly"
    ELSE "none"

\* week.zfill(2)
ZFill2(d) == IF Len(d) < 2 THEN <<"0">> \o d ELSE d

\* convert_filename
ConvertFilename(n, file_type) ==
    CASE file_type = "daily" ->
             SubSeq(n, 1, 4) \o <<"-">> \o SubSeq(n, 5, 6) \o <<"-">> \o SubSeq(n, 7, 8) \o MdExt
      [] file_type = "monthly" -> SubSeq(n, 1, 4) \o <<"-">> \o SubSeq(n, 6, 7) \o MdExt
      [] file_type = "weekly" ->
             SubSeq(n, 1, 4) \o <<"-", "W">>
                 \o ZFill2(SubSeq(n, LetterAt(n) + 1, Len(n) - 3)) \o MdExt
      [] file_type = "quarterly" ->
             SubSeq(n, 1, 4) \o <<"-", "Q">> \o <<n[LetterAt(n) + 1]>> \o MdExt
      [] OTHER -> n

\* the items of the source directory: name, a directory or not
MigrateItems ==
    << [name |-> <<"2","0","2","2","0","3","2","5",".","m","d">>, dir |-> FALSE],
       [name |-> <<"2","0","2","3","W","7",".","m","d">>, dir |-> FALSE],
       [name |-> <<"2","0","2","3",".","0","1",".","m","d">>, dir |-> FALSE],
       [name |-> <<"2","0","2","3","Q","1",".","m","d">>, dir |-> FALSE],
       [name |-> <<"2","0","2","4",".","m","d">>, dir |-> FALSE],
       [name |-> <<"n","o","t","e",".","m","d">>, dir |-> FALSE],
       [name |-> <<"x",".","t","x","t">>, dir |-> FALSE],
       [name |-> <<"2","0","2","2","_","a","t","t","a","c","h","m","e","n","t","s">>,
        dir |-> TRUE],
       [name |-> <<"o","l","d">>, dir |-> TRUE] >>

AttachmentsLit == <<"_","a","t","t","a","c","h","m","e","n","t","s">>

\* the one file of an attachment folder, and its name with a counter
AttachmentName == <<"p", ".png">>

Numbered(name, counter) == <<name[1], "_", counter, name[2]>>

RECURSIVE Present(_, _)
Present(chosen, i) ==
    IF i > Len(MigrateItems) THEN <<>>
    ELSE (IF i \in chosen THEN <<MigrateItems[i]>> ELSE <<>>) \o Present(chosen, i + 1)

ZeroStats == [t \in NoteTypes \cup {"attachments"} |-> [processed |-> 0, errors |-> 0]]

InitMigrate ==
    /\ \E chosen \in SUBSET (1..Len(MigrateItems)), dry_run \in BOOLEAN,
          skip_attachments \in BOOLEAN, dest_dirs \in {{}, NoteTypes \cup {"image"}},
          merged \in BOOLEAN :
           rw = [stage |-> "migrate", dry_run |-> dry_run,
                 skip_attachments |-> skip_attachments,
                 items |-> Present(chosen, 1), source |-> Present(chosen, 1),
                 dirs |-> dest_dirs,
                 dest |-> IF merged /\ dest_dirs # {}
                          THEN {<<"daily", <<"2","0","2","2","-","0","3","-","2","5",".","m","d">>>>,
                                <<"image", AttachmentName>>}
                          ELSE {},
                 merged_into |-> {}, created |-> {}, attachments_moved |-> {},
                 stats |-> ZeroStats, skipped |-> 0, raised |-> FALSE,
                 summary |-> <<>>]
    /\ Idle("migrate", [dry_run |-> rw.dry_run, create_backup |-> FALSE])

\* ensure_directory_exists fails: the directory is missing, the run is real
\* and os.makedirs raises
MkdirFails(dirs, dir, dry_run, fault) == dir \notin dirs /\ ~dry_run /\ fault = "mkdir"

\* the destination directories after ensure_directory_exists
DirsAfter(dirs, dir, dry_run, fault) ==
    IF dir \notin dirs /\ ~dry_run /\ fault # "mkdir" THEN dirs \cup {dir} ELSE dirs

\* what process_note_file returns, None being as good as False to its caller
NoteProcessed(dest, dirs, n, file_type, dry_run, fault) ==
    IF MkdirFails(dirs, file_type, dry_run, fault) THEN FALSE
    ELSE IF dry_run THEN FALSE
    ELSE fault # "io"

\* the file process_note_file merges into
NoteMerged(dest, dirs, n, file_type, dry_run, fault) ==
    IF /\ ~MkdirFails(dirs, file_type, dry_run, fault) /\ ~dry_run /\ fault # "io"
       /\ <<file_type, ConvertFilename(n, file_type)>> \in dest
    THEN {<<file_type, ConvertFilename(n, file_type)>>} ELSE {}

\* the file process_note_file creates
NoteCreated(dest, dirs, n, file_type, dry_run, fault) ==
    IF /\ ~MkdirFails(dirs, file_type, dry_run, fault) /\ ~dry_run /\ fault # "io"
       /\ <<file_type, ConvertFilename(n, file_type)>> \notin dest
    THEN {<<file_type, ConvertFilename(n, file_type)>>} ELSE {}

\* FILE_TYPES and get_attachment_type for the extensions of the model
AttachmentType(name) == IF name[2] \in {".png", ".jpg"} THEN "image" ELSE "document"

\* the name process_attachment_file gives the copy: the first free one
FreeName(dest, name) ==
    IF <<AttachmentType(name), name>> \notin dest THEN name
    ELSE Numbered(name, SetMin({c \in 1..(Cardinality(dest) + 1) :
                                    <<AttachmentType(name), Numbered(name, c)>> \notin dest}))

\* what process_attachment_file returns
AttachmentProcessed(dirs, name, dry_run, fault) ==
    IF MkdirFails(dirs, AttachmentType(name), dry_run, fault) THEN FALSE
    ELSE dry_run \/ fault # "io"

\* the copy process_attachment_file makes
AttachmentMoved(dest, dirs, name, dry_run, fault) ==
    IF ~MkdirFails(dirs, AttachmentType(name), dry_run, fault) /\ ~dry_run /\ fault # "io"
    THEN {<<AttachmentType(name), FreeName(dest, name)>>} ELSE {}

Counted1(stats, t, ok) ==
    IF ok THEN [stats EXCEPT ![t].processed = @ + 1]
    ELSE [stats EXCEPT ![t].errors = @ + 1]

\* the loop body of migrate_files for a recognised note
MigrateNote ==
    /\ rw.stage = "migrate"
    /\ rw.items # <<>>
    /\ ~Head(rw.items).dir
    /\ IdentifyFileType(Head(rw.items).name) # "none"
    /\ \E fault \in {"none", "mkdir", "io"} :
           rw' = [rw EXCEPT
                    !.items = Tail(@),
                    !.dirs = DirsAfter(@, IdentifyFileType(Head(rw.items).name),
                                       rw.dry_run, fault),
                    !.dest = @ \cup NoteCreated(rw.dest, rw.dirs, Head(rw.items).name,
                                                IdentifyFileType(Head(rw.items).name),
                                                rw.dry_run, fault),
                    !.created = @ \cup NoteCreated(rw.dest, rw.dirs, Head(rw.items).name,
                                                   IdentifyFileType(Head(rw.items).name),
                                                   rw.dry_run, fault),
                    !.merged_into = @ \cup NoteMerged(rw.dest, rw.dirs, Head(rw.items).name,
                                                      IdentifyFileType(Head(rw.items).name),
                                                      rw.dry_run, fault),
                    !.raised = @ \/ (fault = "io" /\ ~rw.dry_run
                                     /\ ~MkdirFails(rw.dirs,
                                                    IdentifyFileType(Head(rw.items).name),
                                                    rw.dry_run, fault))
                                 \/ MkdirFails(rw.dirs,
                                               IdentifyFileType(Head(rw.items).name),
                                               rw.dry_run, fault),
                    !.stats = Counted1(@, IdentifyFileType(Head(rw.items).name),
                                       NoteProcessed(rw.dest, rw.dirs, Head(rw.items).name,
                                                     IdentifyFileType(Head(rw.items).name),
                                                     rw.dry_run, fault))]
    /\ UNCHANGED Batch

\* the loop body for an attachment folder, which holds one file
MigrateAttachments ==
    /\ rw.stage = "migrate"
    /\ rw.items # <<>>
    /\ Head(rw.items).dir
    /\ Contains(Head(rw.items).name, AttachmentsLit)
    /\ \E fault \in {"none", "mkdir", "io"} :
           rw' = IF rw.skip_attachments THEN [rw EXCEPT !.items = Tail(@)]
                 ELSE [rw EXCEPT
                         !.items = Tail(@),
                         !.dirs = DirsAfter(@, AttachmentType(AttachmentName),
                                            rw.dry_run, fault),
                         !.dest = @ \cup AttachmentMoved(rw.dest, rw.dirs, AttachmentName,
                                                         rw.dry_run, fault),
                         !.attachments_moved =
                             @ \cup AttachmentMoved(rw.dest, rw.dirs, AttachmentName,
                                                    rw.dry_run, fault),
                         !.stats = Counted1(@, "attachments",
                                            AttachmentProcessed(rw.dirs, AttachmentName,
                                                                rw.dry_run, fault))]
    /\ UNCHANGED Batch

\* the loop body for the other items: a directory is passed over, a file
\* that is no recognised note is counted as skipped
MigrateOther ==
    /\ rw.stage = "migrate"
    /\ rw.items # <<>>
    /\ \/ Head(rw.items).dir /\ ~Contains(Head(rw.items).name, AttachmentsLit)
       \/ ~Head(rw.items).dir /\ IdentifyFileType(Head(rw.items).name) = "none"
    /\ rw' = [rw EXCEPT !.items = Tail(@),
                        !.skipped = IF Head(rw.items).dir THEN @ ELSE @ + 1]
    /\ UNCHANGED Batch

\* the "Migration Summary"
MigrateSummary ==
    /\ rw.stage = "migrate"
    /\ rw.items = <<>>
    /\ rw' = [rw EXCEPT !.stage = "migrated",
                        !.summary = [stats |-> rw.stats, skipped |-> rw.skipped]]
    /\ UNCHANGED Batch

NextMigrate == MigrateNote \/ MigrateAttachments \/ MigrateOther \/ MigrateSummary

SpecMigrate == InitMigrate /\ [][NextMigrate]_vars

\* the notes of the type in the source directory
NotesOfType(t) ==
    {i \in DOMAIN rw.source :
         ~rw.source[i].dir /\ IdentifyFileType(rw.source[i].name) = t}

\* C30: in a run of the migration in which the processing of no note raised
\* an error, a dry run as well as a real one, the summary counts every
\* recognised note of a type as processed and none as an error, so that the
\* counts of the dry run are those of the real run.
C30_DryRunCountsAsTheRealRun ==
    (rw.stage = "migrated" /\ ~rw.raised) =>
        \A t \in NoteTypes :
            rw.summary.stats[t] = [processed |-> Cardinality(NotesOfType(t)), errors |-> 0]

====
